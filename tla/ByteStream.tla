----------------------------- MODULE ByteStream -----------------------------
(***************************************************************************)
(* What the SPI RAM write path promises to its caller: a session accepts   *)
(* bytes, each is stored in the RAM once, in the order of acceptance, and  *)
(* the session closes only when all of them are stored.                    *)
(***************************************************************************)
EXTENDS Naturals, Sequences

CONSTANT Byte

VARIABLES open, accepted, stored

streamVars == <<open, accepted, stored>>

Init == open = FALSE /\ accepted = <<>> /\ stored = <<>>

Begin ==
  /\ ~open
  /\ open' = TRUE /\ accepted' = <<>> /\ stored' = <<>>

Take(b) ==
  /\ open
  /\ accepted' = Append(accepted, b)
  /\ UNCHANGED <<open, stored>>

Store ==
  /\ open /\ Len(stored) < Len(accepted)
  /\ stored' = Append(stored, accepted[Len(stored) + 1])
  /\ UNCHANGED <<open, accepted>>

Close ==
  /\ open /\ stored = accepted
  /\ open' = FALSE
  /\ UNCHANGED <<accepted, stored>>

Next == Begin \/ (\E b \in Byte : Take(b)) \/ Store \/ Close

Spec == Init /\ [][Next]_streamVars
=============================================================================
