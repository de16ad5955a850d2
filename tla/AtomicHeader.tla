---------------------------- MODULE AtomicHeader ----------------------------
(***************************************************************************)
(* What the arena undo log promises its caller (spec section 4.5): a group *)
(* of arena-header fields is updated atomically with respect to crashes.   *)
(*                                                                         *)
(*   durable  - the header contents a restart would present after recovery *)
(*   working  - the header contents the running process sees              *)
(*   committing - whether the process has asked for its update to commit  *)
(*                                                                         *)
(* The process edits working field by field; durable changes only when a  *)
(* commit the process asked for takes the whole working copy.  Aborting an *)
(* update, by an explicit revert or by a crash and the recovery after it,  *)
(* makes working equal to durable again.                                   *)
(***************************************************************************)
CONSTANTS Fields, Vals

VARIABLES durable, working, committing

Header == [Fields -> Vals]

Init == /\ durable \in Header
        /\ working = durable
        /\ committing = FALSE

Write(f, v) == /\ ~committing
               /\ working' = [working EXCEPT ![f] = v]
               /\ UNCHANGED <<durable, committing>>

RequestCommit == /\ ~committing
                 /\ committing' = TRUE
                 /\ UNCHANGED <<durable, working>>

Commit == /\ committing
          /\ durable' = working
          /\ committing' = FALSE
          /\ UNCHANGED working

Abort == /\ working' = durable
         /\ committing' = FALSE
         /\ UNCHANGED durable

Next == \/ \E f \in Fields, v \in Vals : Write(f, v)
        \/ RequestCommit
        \/ Commit
        \/ Abort

Spec == Init /\ [][Next]_<<durable, working, committing>>
=============================================================================
