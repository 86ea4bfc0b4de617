--------------------------- MODULE MCVoucherRadius ---------------------------
(***************************************************************************)
(* Values for the model checker.  The terms of plans and the life of       *)
(* vouchers share no state, so they are explored one after the other: the  *)
(* terms move only while no voucher, plan or request has moved.            *)
(***************************************************************************)
EXTENDS VoucherRadius, PlanTerms, TLC

\* Minutes around every unit's boundaries.
MCMinutes == {0, 1, 4, 59, 60, 61, 1440, 1441, 20160, 30240, 43200, 100800}

MCValues == {-1, 0, 1, 2, 7, 30, 1440, 100801}

\* Every length of a packet up to four, and bytes that make attributes shorter, as long and longer.
MCPackets == UNION {[1..n -> 0..4] : n \in 0..4}

\* Around the seconds of one, two and five minutes, and around whole seconds.
MCTimes == {-1, 0, 1, 3, 4, 5, 8, 239, 240, 241, 480, 481, 1200, 1201}

\* Around one and two words, and the largest number of two.
MCSizes == {-1, 0, 1, 255, 256, 257, 511, 512, 513, 65535}

MCLengths == {0, 246, 247, 248, 253, 254, 300}

terms == <<planRow, asked, reply>>

AtRest == /\ \A r \in Requests : At(r, "idle")
          /\ \A v \in Vouchers : vouchers[v] = NoRow /\ radcheck[v] = {}
          /\ plan = [active |-> TRUE, capped |-> TRUE, deleted |-> FALSE]

\* A deleted plan is as unusable as an inactive one and stays so: a deletion is explored only while a
\* patch in flight may still save the row.  Nobody asks for the limit of an inactive plan.
PlanExplored ==
  /\ plan'.deleted => \E r \in Requests : At(r, "patchSave")'
  /\ plan'.active \/ plan'.capped
  /\ \A r \in Requests : At(r, "patchSave")' => req'[r].then = "active" \/ req'[r].capped

\* Of a plan only the time left is computed; the other answers have nothing to do with it.  A plan that
\* was changed is one that could have been created (PatchKeepsTerms), and is not explored further.
OneQuestion == reply' # NoReply => planRow = Refused \/ reply'.kind = "time"

MCInit == Init /\ TermsInit

MCNext == \/ terms = <<Refused, NotAsked, NoReply>> /\ Next /\ UNCHANGED terms /\ PlanExplored
          \/ AtRest /\ asked = NotAsked /\ TermsNext /\ UNCHANGED vars /\ OneQuestion

MCSpec == MCInit /\ [][MCNext]_<<vars, terms>>

Symmetry == Permutations(Requests) \union Permutations(Devices)
=============================================================================
