---------------------------- MODULE MCStorage ----------------------------
(* Instances of BlockCache, BTree and PriorityQueue for TLC.  They share no     *)
(* state here (the tree keeps its nodes by value, the queue its slots): one of *)
(* them is explored, the others are not used.                                  *)
EXTENDS BlockCache, BTree, PriorityQueue

(* Many items with the keys 1 and 2, enough for a tree of three levels, an    *)
(* item that is told from those with an equal key, and one with a third key.  *)
MCItems == [key : {1, 2}, tag : {"one"}] \cup
           {[key |-> 2, tag |-> "other"], [key |-> 3, tag |-> "one"]}

MCMaxItems ==
  [x \in MCItems |-> IF x.tag = "other" \/ x.key = 3 THEN 2 ELSE 11]

MCKeys == 0 .. 4

-----------------------------------------------------------------------------
(* A client of the queue that makes any calls, with two items and few of them, *)
(* or one that fills the queue: items in a fixed order (all alike, rising and  *)
(* falling again, or falling and rising), a few other calls when the first     *)
(* group is about to be emptied, the buffer of the second one removed, or the  *)
(* second group emptied; in the end it takes all of them, and begins again.    *)
CONSTANTS FewItems, Strides, Stops, MaxCalls, MaxPushes

VARIABLE client

NoClient == [stride |-> 0, pushes |-> 0, calls |-> 0]

Taking == Top \/ Pop \/ PopEquals

AnyCall ==
  /\ client = NoClient
  /\ (\E x \in {1, 2} : pq.size < FewItems /\ Push(x)) \/ Taking
  /\ UNCHANGED client

NextItem(stride) == ((client.pushes * stride) % Max(PQItems)) + 1

Fill(stride) ==
  /\ client = NoClient => pq = EmptyQueue
  /\ client # NoClient => client.stride = stride
  /\ client.pushes < MaxPushes /\ Push(NextItem(stride))
  /\ client' = [stride |-> stride, pushes |-> client.pushes + 1, calls |-> 0]

TakeSome ==
  /\ client.pushes \in Stops /\ client.calls < MaxCalls /\ Taking
  /\ client' = [client EXCEPT !.calls = @ + 1]

TakeAll == client.pushes = MaxPushes /\ PopEquals /\ UNCHANGED client

Renew == client.pushes = MaxPushes /\ pq.size = 0 /\ pq' = EmptyQueue /\ client' = NoClient

ClientNext == AnyCall \/ (\E stride \in Strides : Fill(stride)) \/ TakeSome \/ TakeAll \/ Renew

-----------------------------------------------------------------------------
VARIABLE explored

MCInit ==
  /\ CacheInit /\ TreeInit /\ QueueInit /\ client = NoClient
  /\ explored \in {"cache", "tree", "queue"}

MCNext ==
  /\ UNCHANGED explored
  /\ \/ explored = "cache" /\ CacheNext /\ UNCHANGED <<tree, pq, client>>
     \/ explored = "tree" /\ TreeNext /\ UNCHANGED <<storeVars, pq, client>>
     \/ explored = "queue" /\ ClientNext /\ UNCHANGED <<storeVars, tree>>

MCSpec == MCInit /\ [][MCNext]_<<storeVars, tree, pq, client, explored>>
=============================================================================
