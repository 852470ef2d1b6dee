------------------------------ MODULE ByteCounter ------------------------------
(***************************************************************************)
(* python/phantom/instrumentation/byte_counter.py: what moved in each step *)
(* of a generation.  Every method runs under one lock, so each is a step;  *)
(* the calls of the threads that decode, page and read come in any order,  *)
(* and one counter serves the whole process.                               *)
(***************************************************************************)
EXTENDS Naturals, Sequences, FiniteSets, SequencesExt, FiniteSetsExt

CONSTANTS Kinds,     (* h2d, d2h, nvme_read, ...: one pair of fields each   *)
          MaxBytes,  (* bound: bytes recorded                               *)
          MaxTokens  (* bound: tokens started                               *)

VARIABLES cumulative, (* per kind                                           *)
          current,    (* current_record: <<>> or <<bytes per kind>>         *)
          history,    (* token_history                                      *)
          moved,      (* history: what was recorded since the last reset,   *)
                      (* and the number of the token it was recorded in     *)
          tokens      (* history: tokens started, FALSE while none is open  *)

vars == <<cumulative, current, history, moved, tokens>>

Nothing == [k \in Kinds |-> 0]
Total(rs, k) == SumFunction([i \in DOMAIN rs |-> rs[i][k]])
Amount(S) == SumFunction([m \in S |-> m.bytes])

TypeOK == /\ cumulative \in [Kinds -> Nat] /\ history \in Seq([Kinds -> Nat])
          /\ current \in Seq([Kinds -> Nat]) /\ Len(current) <= 1
          /\ tokens.count \in Nat /\ tokens.open \in BOOLEAN

Init == /\ cumulative = Nothing /\ current = <<>> /\ history = <<>>
        /\ moved = {} /\ tokens = [count |-> 0, open |-> FALSE]

(* A token that was not ended ends where the next one starts.              *)
StartToken_Fault ==
  /\ tokens.count < MaxTokens /\ tokens' = [count |-> tokens.count + 1, open |-> TRUE]
  /\ current' = <<Nothing>>
  /\ UNCHANGED <<cumulative, history, moved>>
StartToken ==
  /\ tokens.count < MaxTokens /\ tokens' = [count |-> tokens.count + 1, open |-> TRUE]
  /\ history' = history \o current /\ current' = <<Nothing>>
  /\ UNCHANGED <<cumulative, moved>>
EndToken ==
  /\ history' = history \o current /\ current' = <<>>
  /\ tokens' = [tokens EXCEPT !.open = FALSE]
  /\ UNCHANGED <<cumulative, moved>>

Record(k, n) ==
  /\ Amount(moved) + n <= MaxBytes
  /\ cumulative' = [cumulative EXCEPT ![k] = @ + n]
  /\ current' = [i \in DOMAIN current |-> [current[i] EXCEPT ![k] = @ + n]]
  /\ moved' = moved \cup {[id |-> Cardinality(moved), kind |-> k, bytes |-> n,
                           token |-> IF tokens.open THEN tokens.count ELSE 0]}
  /\ UNCHANGED <<history, tokens>>

ResetAll ==
  /\ cumulative' = Nothing /\ current' = <<>> /\ history' = <<>>
  /\ moved' = {} /\ tokens' = [tokens EXCEPT !.open = FALSE]

Next == \/ StartToken \/ EndToken \/ ResetAll
        \/ \E k \in Kinds, n \in {1, 2} : Record(k, n)

(* generate_accounting_report: averages over the tokens that have ended.   *)
PerToken(k) == Total(history, k) \div (IF history = <<>> THEN 1 ELSE Len(history))

(* Every byte is in the lifetime counter, and in the record of exactly the *)
(* token it was moved in, however tokens are started and ended; what moves *)
(* between two tokens is in no record, and the report averages the ended   *)
(* tokens only.                                                            *)
BytesAccounted ==
  \A k \in Kinds :
    LET of(T) == Amount({m \in moved : m.kind = k /\ m.token \in T})
    IN  /\ cumulative[k] = of(0..tokens.count)
        /\ Total(history, k) + Total(current, k) = of(1..tokens.count)
        /\ tokens.open <=> current # <<>>
        /\ tokens.open => current[1][k] = of({tokens.count})
        /\ PerToken(k) <= Max({0} \cup {history[i][k] : i \in DOMAIN history})
=============================================================================
