---------------------------- MODULE Accounting ----------------------------
(***************************************************************************)
(* tpie/resource_manager.cpp, tpie/memory.cpp and tpie/spin_lock.h: the    *)
(* memory in use is an atomic counter that may be bounded by a limit, and  *)
(* what is allocated of each type is kept in a hash map under a            *)
(* reader-writer spin lock, whose readers change the (atomic) counts of an *)
(* entry and whose writers add entries.  Every atomic operation is a step. *)
(***************************************************************************)
EXTENDS Integers, FiniteSets, FiniteSetsExt

CONSTANTS
  Threads,
  Types,        (* the types that are allocated                            *)
  Bytes,        (* Bytes[t]: the size of an object of type t               *)
  Raw,          (* uint8_t, the type of __allocate_consecutive             *)
  Granularity,  (* of __allocate_consecutive                               *)
  Settings,     (* [enforce, limit, calls]: how and to what the usage is   *)
                (* limited (0 is no limit), and, as a bound, the calls     *)
                (* each thread makes                                       *)
  Heaps,        (* the largest arrays that new is able to give             *)
  Exclusive     (* 0x80000000, more than there are threads                 *)

ASSUME AccountingAssumption ==
  /\ IsFiniteSet(Threads) /\ Exclusive \in Nat /\ Exclusive > Cardinality(Threads)
  /\ Bytes \in [Types -> Nat \ {0}] /\ Raw \notin Types
  /\ Granularity \in Nat \ {0} /\ Heaps \subseteq Nat
  /\ Settings \subseteq [enforce : {"ignore", "debug", "warn", "throw"}, limit : Nat,
                          calls : [Threads -> Nat]]

VARIABLES
  enforce, (* m_enforce                                                    *)
  limit,   (* m_limit                                                      *)
  used,    (* m_used                                                       *)
  spin,    (* m_mutex of the registry                                      *)
  known,   (* the types that have an entry in m_allocations                *)
  entry,   (* m_allocations: count and bytes of each type                  *)
  at,      (* where each thread is                                         *)
  job,     (* what the thread allocates or frees                           *)
  live,    (* the allocations that are there                               *)
  refused, (* the bytes of the allocations that were refused               *)
  calls    (* operations each thread has left (bound)                      *)

accountVars == <<enforce, limit, used, spin, known, entry, at, job, live, refused,
                 calls>>

AllTypes == Types \cup {Raw}

(* An allocation: who made it and which of its calls, what it asked for and  *)
(* the largest array that new could give then, when it is a raw array.       *)
Block(p, n, type, bytes, asked, heap) ==
  [owner |-> p, n |-> n, type |-> type, bytes |-> bytes, asked |-> asked, heap |-> heap]
NoBlock == Block(CHOOSE p \in Threads : TRUE, 0, Raw, 0, 0, 0)

Available == IF used < limit THEN limit - used ELSE 0

AccountInit ==
  /\ \E s \in Settings : enforce = s.enforce /\ limit = s.limit /\ calls = s.calls
  /\ used = 0 /\ spin = 0 /\ known = {}
  /\ entry = [t \in AllTypes |-> [count |-> 0, bytes |-> 0]]
  /\ at  = [p \in Threads |-> "idle"]
  /\ job = [p \in Threads |-> NoBlock]
  /\ live = {} /\ refused = 0

-----------------------------------------------------------------------------
(* The next operation of a thread. *)
Begins(p, to) ==
  /\ at[p] = "idle" /\ calls[p] > 0
  /\ at'    = [at EXCEPT ![p] = to]
  /\ calls' = [calls EXCEPT ![p] = @ - 1]

(* Mutant: the limit is compared with what was used before. *)
TakenBefore(p, block) ==
  /\ used' = used + block.bytes
  /\ IF enforce = "throw" /\ limit > 0 /\ used > limit
     THEN /\ refused' = refused + block.bytes
          /\ at' = [at EXCEPT ![p] = "idle"]
          /\ UNCHANGED <<job, live>>
     ELSE /\ live' = live \cup {block}
          /\ job'  = [job EXCEPT ![p] = block]
          /\ at'   = [at EXCEPT ![p] = "add:lock"]
          /\ UNCHANGED refused

(* register_increased_usage(): when it throws, the usage stays increased and *)
(* the caller has nothing to free.                                           *)
Taken(p, block) ==
  /\ used' = used + block.bytes
  /\ IF enforce = "throw" /\ limit > 0 /\ used + block.bytes > limit
     THEN /\ refused' = refused + block.bytes
          /\ at' = [at EXCEPT ![p] = "idle"]
          /\ UNCHANGED <<job, live>>
     ELSE /\ live' = live \cup {block}
          /\ job'  = [job EXCEPT ![p] = block]
          /\ at'   = [at EXCEPT ![p] = "add:lock"]
          /\ UNCHANGED refused

(* tpie_new: register_allocation(), the increase of the usage. *)
Allocate(p, t) ==
  /\ at[p] = "idle" /\ calls[p] > 0
  /\ Taken(p, Block(p, calls[p], t, Bytes[t], 0, 0))
  /\ calls' = [calls EXCEPT ![p] = @ - 1]
  /\ UNCHANGED <<enforce, limit, spin, known, entry>>

(* tpie_delete: register_deallocation(), the decrease of the usage.  Any     *)
(* thread may free what is registered.                                       *)
Deallocate(p, block) ==
  /\ block \in live
  /\ \A q \in Threads : at[q] # "idle" => job[q] # block
  /\ Begins(p, "remove:lock")
  /\ used' = used - block.bytes /\ live' = live \ {block}
  /\ job'  = [job EXCEPT ![p] = block]
  /\ UNCHANGED <<enforce, limit, spin, known, entry, refused>>

(* memory_digest() or complain_about_unfreed_memory(): reads all entries. *)
Digest(p) ==
  /\ Begins(p, "read:lock")
  /\ job' = [job EXCEPT ![p] = NoBlock]
  /\ UNCHANGED <<enforce, limit, used, spin, known, entry, live, refused>>

(* __allocate_consecutive(): the amount available is read first ... *)
AskConsecutive(p) ==
  /\ Begins(p, "consecutive")
  /\ job' = [job EXCEPT ![p] = [NoBlock EXCEPT !.asked = Available \div Granularity]]
  /\ UNCHANGED <<enforce, limit, used, spin, known, entry, live, refused>>

(* Mutant: the search ends before its last candidate. *)
SearchAbove(high, heap) ==
  LET Go[x \in Nat \X Nat \X Nat] ==
        LET low == x[1]
            top == x[2]
            mid == (low + top) \div 2
        IN  IF top <= low THEN x[3]
            ELSE IF mid * Granularity <= heap
                 THEN Go[<<mid + 1, top, mid>>]
                 ELSE Go[<<low, mid - 1, x[3]>>]
  IN  IF high * Granularity <= heap THEN high ELSE Go[<<1, high, 0>>]

(* The largest array of at most high grains that new gives: high itself, or  *)
(* what a binary search finds.                                               *)
LargestArray(high, heap) ==
  LET Go[x \in Nat \X Nat \X Nat] ==
        LET low == x[1]
            top == x[2]
            mid == (low + top) \div 2
        IN  IF top < low THEN x[3]
            ELSE IF mid * Granularity <= heap
                 THEN Go[<<mid + 1, top, mid>>]
                 ELSE Go[<<low, mid - 1, x[3]>>]
  IN  IF high * Granularity <= heap THEN high ELSE Go[<<1, high, 0>>]

(* ... and the array that was found is registered, when the amount available *)
(* may be another; the array is lost when that throws.                       *)
TakeConsecutive(p, heap) ==
  /\ at[p] = "consecutive"
  /\ LET asked == job[p].asked
     IN  Taken(p, Block(p, calls[p] + 1, Raw,
                        LargestArray(asked, heap) * Granularity, asked, heap))
  /\ UNCHANGED <<enforce, limit, spin, known, entry, calls>>

-----------------------------------------------------------------------------
Goes(p, from, to) == at[p] = from /\ at' = [at EXCEPT ![p] = to]

Others == <<enforce, limit, used, job, live, refused, calls>>

(* shared_spin_lock::acquire(): the lock is counted first ... *)
AcquireShared(p, from, to) ==
  /\ Goes(p, from, to)
  /\ spin' = spin + 1
  /\ UNCHANGED <<Others, known, entry>>

(* Mutant: acquire() only waits when the lock was exclusive alone. *)
SharedOwn(p, from, to) ==
  /\ Goes(p, from, to)
  /\ spin # Exclusive
  /\ UNCHANGED <<Others, spin, known, entry>>

(* ... and is had when no writer has it. *)
SharedHad(p, from, to) ==
  /\ Goes(p, from, to)
  /\ spin < Exclusive
  /\ UNCHANGED <<Others, spin, known, entry>>

(* shared_spin_lock::release() *)
ReleaseShared(p, from, to) ==
  /\ Goes(p, from, to)
  /\ spin' = spin - 1
  /\ UNCHANGED <<Others, known, entry>>

(* unique_spin_lock: taken when nobody has, or waits for, the lock. *)
AcquireUnique(p, from, to) ==
  /\ Goes(p, from, to)
  /\ spin = 0 /\ spin' = Exclusive
  /\ UNCHANGED <<Others, known, entry>>

(* Its destructor leaves the readers that wait counted. *)
ReleaseUnique(p, from, to) ==
  /\ Goes(p, from, to)
  /\ spin' = spin - Exclusive
  /\ UNCHANGED <<Others, known, entry>>

-----------------------------------------------------------------------------
Type(p) == job[p].type

(* find() in register_typed_allocation(). *)
FindOrInsert(p) ==
  /\ Goes(p, "add:find", IF Type(p) \in known THEN "add:count" ELSE "add:give_up")
  /\ UNCHANGED <<Others, spin, known, entry>>

(* Mutant: the entry is not looked up again under the unique lock. *)
InsertBlind(p) ==
  /\ Goes(p, "insert", "inserted")
  /\ known' = known \cup {Type(p)}
  /\ entry' = [entry EXCEPT ![Type(p)] = [count |-> 0, bytes |-> 0]]
  /\ UNCHANGED <<Others, spin>>

(* Under the unique lock the type is looked up again before it is added. *)
Insert(p) ==
  /\ Goes(p, "insert", "inserted")
  /\ known' = known \cup {Type(p)}
  /\ entry' = IF Type(p) \in known THEN entry
              ELSE [entry EXCEPT ![Type(p)] = [count |-> 0, bytes |-> 0]]
  /\ UNCHANGED <<Others, spin>>

(* it->second.count++, then it->second.bytes += bytes: two atomic operations *)
(* under the shared lock.                                                    *)
AddCount(p) ==
  /\ Goes(p, "add:count", "add:bytes")
  /\ entry' = [entry EXCEPT ![Type(p)].count = @ + 1]
  /\ UNCHANGED <<Others, spin, known>>

AddBytes(p) ==
  /\ Goes(p, "add:bytes", "added")
  /\ entry' = [entry EXCEPT ![Type(p)].bytes = @ + job[p].bytes]
  /\ UNCHANGED <<Others, spin, known>>

(* register_typed_deallocation(): find(), then the two decreases. *)
RemoveCount(p) ==
  /\ Goes(p, "remove:find", IF Type(p) \in known THEN "remove:bytes" ELSE "removed")
  /\ entry' = IF Type(p) \in known THEN [entry EXCEPT ![Type(p)].count = @ - 1]
              ELSE entry
  /\ UNCHANGED <<Others, spin, known>>

RemoveBytes(p) ==
  /\ Goes(p, "remove:bytes", "removed")
  /\ entry' = [entry EXCEPT ![Type(p)].bytes = @ - job[p].bytes]
  /\ UNCHANGED <<Others, spin, known>>

(* The threads run register_typed_allocation(), ... *)
AddStep(p) ==
  \/ AcquireShared(p, "add:lock", "add:spin")
  \/ SharedHad(p, "add:spin", "add:find")
  \/ FindOrInsert(p)
  \/ ReleaseShared(p, "add:give_up", "insert:lock")
  \/ AcquireUnique(p, "insert:lock", "insert")
  \/ Insert(p)
  \/ ReleaseUnique(p, "inserted", "add:again")
  \/ AcquireShared(p, "add:again", "add:spin_again")
  \/ SharedHad(p, "add:spin_again", "add:count")
  \/ AddCount(p) \/ AddBytes(p)
  \/ ReleaseShared(p, "added", "idle")

(* ... register_typed_deallocation() ... *)
RemoveStep(p) ==
  \/ AcquireShared(p, "remove:lock", "remove:spin")
  \/ SharedHad(p, "remove:spin", "remove:find")
  \/ RemoveCount(p) \/ RemoveBytes(p)
  \/ ReleaseShared(p, "removed", "idle")

(* ... and the readers of the whole map. *)
ReadStep(p) ==
  \/ AcquireShared(p, "read:lock", "read:spin")
  \/ SharedHad(p, "read:spin", "read")
  \/ ReleaseShared(p, "read", "idle")

AccountNext ==
  \E p \in Threads :
    \/ \E t \in Types : Allocate(p, t)
    \/ \E block \in live : Deallocate(p, block)
    \/ Digest(p) \/ AskConsecutive(p)
    \/ \E heap \in Heaps : TakeConsecutive(p, heap)
    \/ AddStep(p) \/ RemoveStep(p) \/ ReadStep(p)

AccountSpec == AccountInit /\ [][AccountNext]_accountVars

-----------------------------------------------------------------------------
(* Where a thread reads the hash map, or uses what it found there ...        *)
Readers == {p \in Threads : at[p] \in {"add:find", "add:count", "add:bytes",
                                       "remove:find", "remove:bytes", "read"}}
(* ... and where it changes the map.                                         *)
Writers == {p \in Threads : at[p] = "insert"}

(* Nobody reads the map while a thread adds an entry, and one thread does at *)
(* a time.                                                                   *)
WriterAlone ==
  Writers # {} => Readers = {} /\ Cardinality(Writers) = 1

BytesOf(blocks) == MapThenSumSet(LAMBDA b : b.bytes, blocks)

LiveOf(t) == {b \in live : b.type = t}

(* What threads have on their way into and out of the entry of a type. *)
NotCounted(t, where) ==
  {job[p] : p \in {q \in Threads : at[q] \in where /\ job[q].type = t}}

ToCount   == {"add:lock", "add:spin", "add:find", "add:give_up", "insert:lock",
              "insert", "inserted", "add:again", "add:spin_again", "add:count"}
ToUncount == {"remove:lock", "remove:spin", "remove:find"}

(* Count and bytes of every type are those of its live allocations, but for  *)
(* what threads are just adding or removing, and the usage is what is live   *)
(* and what was refused.                                                     *)
EntriesExact ==
  \A t \in AllTypes :
    /\ entry[t].count + Cardinality(NotCounted(t, ToCount))
         = Cardinality(LiveOf(t)) + Cardinality(NotCounted(t, ToUncount))
    /\ entry[t].bytes + BytesOf(NotCounted(t, ToCount \cup {"add:bytes"}))
         = BytesOf(LiveOf(t)) + BytesOf(NotCounted(t, ToUncount \cup {"remove:bytes"}))
    /\ LiveOf(t) \ NotCounted(t, ToCount) # {} => t \in known

(* The registry tells the truth in every interleaving of the threads that    *)
(* allocate, free and read it: no count is lost when two threads meet an     *)
(* unknown type, no one reads the map while it is changed, and used() is     *)
(* never less than what is allocated.                                        *)
RegistryExact ==
  /\ WriterAlone /\ EntriesExact
  /\ used = BytesOf(live) + refused

(* With ENFORCE_THROW the allocations that were granted are never more than  *)
(* the limit, however many threads ask at a time, and an array of            *)
(* __allocate_consecutive() is the largest that was available when it asked  *)
(* and that new could give.                                                  *)
GrantsWithinLimit ==
  /\ enforce = "throw" /\ limit > 0 => BytesOf(live) <= limit
  /\ \A b \in LiveOf(Raw) :
       b.bytes = Max({g * Granularity : g \in
                        {h \in 0 .. b.asked : h * Granularity <= b.heap}})
=============================================================================
