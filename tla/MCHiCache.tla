----------------------------- MODULE MCHiCache -----------------------------
EXTENDS HiCache

Setting(hits, load, chunk, device, text, prompt, once) ==
  [hits |-> hits, load |-> load, chunk |-> chunk, device |-> device, host |-> device + 1,
   text |-> text, prompt |-> prompt, once |-> once]

\* Texts with a common beginning that exceed both pools; a long, a middle and a short
\* one that are batched together; and long answers that retract one another.
MCSettings ==
  {Setting(1, 1, 2, 6, <<<<1, 2, 3>>, <<1, 2, 4>>, <<5, 6, 7>>>>, <<3, 2, 3>>, {}),
   Setting(1, 2, 9, 9, <<<<1, 2, 3>>, <<4, 5, 6, 7, 8, 9>>, <<10>>>>, <<2, 5, 1>>, {2}),
   Setting(2, 1, 9, 9, <<<<1, 2, 3, 4, 5>>, <<6, 7, 8, 9, 10>>>>, <<1, 1>>, {2})}
=============================================================================
