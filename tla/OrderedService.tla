--------------------------- MODULE OrderedService ---------------------------
(***************************************************************************)
(* What the language server promises the editor about order: messages are  *)
(* numbered as the editor sends them, and they are served in that order,   *)
(* each at most once.  A message may be passed over (the server may lose   *)
(* one), but nothing is ever served after a later message.                 *)
(***************************************************************************)
EXTENDS Naturals, Sequences

VARIABLES
    sent,   \* how many messages the editor has sent
    served  \* the numbers of the messages served, in the order of service

Last == IF served = <<>> THEN 0 ELSE served[Len(served)]

Init == sent = 0 /\ served = <<>>

Send == sent' = sent + 1 /\ UNCHANGED served

Serve ==
    /\ \E n \in (Last + 1)..sent : served' = Append(served, n)
    /\ UNCHANGED sent

Next == Send \/ Serve

Spec == Init /\ [][Next]_<<sent, served>>
=============================================================================
