------------------------------ MODULE PageStore ------------------------------
(***************************************************************************)
(* What the NVMe tier promises its callers: a write-once store of frames.  *)
(* Evicting a layer issues a ticket nobody held before; showing a ticket   *)
(* of the running session returns exactly the frame it was issued for; the *)
(* last eviction of a layer decides the ticket the store knows it by.      *)
(* A restart forgets the tickets of the session: nothing is promised of a  *)
(* ticket an earlier session issued.  PhantomPages implements this.        *)
(***************************************************************************)
CONSTANTS Layers,   (* layer identifiers                                   *)
          Frames,   (* the payloads callers evict                          *)
          Tickets,  (* the references handed out                           *)
          Workers,  (* concurrent callers                                  *)
          NoReply   (* what a caller that loads nothing holds              *)

VARIABLES contents, (* the set of <<ticket, frame>> of this session        *)
          latest,   (* the <<layer, ticket>> of the last evictions         *)
          reply     (* per worker, <<ticket, result>> of its last load       *)

storeVars == <<contents, latest, reply>>

StoreInit == /\ contents = {}
             /\ latest = {}
             /\ reply = [w \in Workers |-> NoReply]

Put(l, t, f) == /\ \A c \in contents : c[1] # t
                /\ contents' = contents \cup {<<t, f>>}
                /\ latest' = {e \in latest : e[1] # l} \cup {<<l, t>>}
                /\ UNCHANGED reply

(* A ticket of this session yields its own frame.  Any other ticket (one   *)
(* restored from an earlier session) may yield anything, or an error.      *)
Get(w, t) == /\ \E r \in SUBSET Frames :
                  /\ \A c \in contents : c[1] = t => r = {c[2]}
                  /\ reply' = [reply EXCEPT ![w] = <<t, r>>]
             /\ UNCHANGED <<contents, latest>>

Forget == StoreInit'

StoreNext == \/ \E l \in Layers, t \in Tickets, f \in Frames : Put(l, t, f)
             \/ \E w \in Workers, t \in Tickets : Get(w, t)
             \/ \E w \in Workers : /\ reply' = [reply EXCEPT ![w] = NoReply]
                                   /\ UNCHANGED <<contents, latest>>
             \/ Forget

StoreSpec == StoreInit /\ [][StoreNext]_storeVars
=============================================================================
