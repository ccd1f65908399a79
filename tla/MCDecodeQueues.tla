--------------------------- MODULE MCDecodeQueues ---------------------------
EXTENDS DecodeQueues

Load(prompt, new) == [prompt |-> [r \in Req |-> prompt[r]], new |-> [r \in Req |-> new[r]]]

\* Answers of different lengths, so that a request is retracted while another is
\* in transfer; and prompts that fill the pool.
MCLoads == {Load(<<3, 3, 1>>, <<2, 6, 1>>), Load(<<6, 3, 6>>, <<1, 2, 2>>)}

\* Two long answers and a short one.
StuckLoads == {Load(<<1, 1, 1>>, <<9, 9, 1>>)}
=============================================================================
