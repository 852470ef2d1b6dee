------------------------------- MODULE JobService -------------------------------
(***************************************************************************)
(* What a scheduler of inference requests promises: a request waits in     *)
(* line, runs on one of finitely many slots and is then done, once; those  *)
(* that wait start in the order in which they arrived.                     *)
(***************************************************************************)
EXTENDS Naturals, Sequences

CONSTANTS Requests

VARIABLES line,     (* the requests that wait, oldest first                *)
          running,  (* the requests that hold a slot                       *)
          done      (* the requests that have given their slot back        *)

jobVars == <<line, running, done>>

InLine == {line[i] : i \in DOMAIN line}

JobInit == line = <<>> /\ running = {} /\ done = {}

Arrive(r) == /\ r \notin InLine \cup running \cup done
             /\ line' = Append(line, r)
             /\ UNCHANGED <<running, done>>

(* The n oldest start together.                                            *)
Start(n) == /\ n \in 1..Len(line)
            /\ running' = running \cup {line[i] : i \in 1..n}
            /\ line' = SubSeq(line, n + 1, Len(line))
            /\ UNCHANGED done

Finish(r) == /\ r \in running
             /\ running' = running \ {r} /\ done' = done \cup {r}
             /\ UNCHANGED line

JobNext == \/ \E r \in Requests : Arrive(r) \/ Finish(r)
           \/ \E n \in 1..Len(line) : Start(n)
JobSpec == JobInit /\ [][JobNext]_jobVars
=============================================================================
