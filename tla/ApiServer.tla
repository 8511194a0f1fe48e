----------------------------- MODULE ApiServer -----------------------------
(***************************************************************************)
(* The Kubernetes API server and the informer caches of the operator, as   *)
(* far as the operator's code relies on them.  Both are external to the    *)
(* repository.                                                             *)
(*                                                                         *)
(* store[k][n] is the object of kind k and name n in the API server, None  *)
(* when there is none.  Every write is announced to the operator on the    *)
(* watch of its kind.  The reader handed out by mgr.GetClient() does not   *)
(* read the store: it reads cache, which is the store as of the events     *)
(* delivered so far.  A watch delivers the events of its kind in order and *)
(* each kind lags on its own.                                              *)
(***************************************************************************)
EXTENDS Sequences

CONSTANT None   \* no object, and the empty string of an unset name field

VARIABLES store, cache, watch

apiVars == <<store, cache, watch>>

\* obj (None for a deletion) becomes object n of kind k.
\* A write that changes nothing is not announced.
Write(k, n, obj) ==
    /\ store' = [store EXCEPT ![k][n] = obj]
    /\ watch' = IF store[k][n] = obj
                THEN watch
                ELSE [watch EXCEPT ![k] = Append(@, [name |-> n, obj |-> obj])]
    /\ UNCHANGED cache

\* The informer of kind k handles its next event.
Deliver(k) ==
    /\ watch[k] # <<>>
    /\ cache' = [cache EXCEPT ![k][Head(watch[k]).name] = Head(watch[k]).obj]
    /\ watch' = [watch EXCEPT ![k] = Tail(@)]
    /\ UNCHANGED store
=============================================================================
