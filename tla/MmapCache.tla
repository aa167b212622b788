----------------------------- MODULE MmapCache -----------------------------
(***************************************************************************)
(* The table of mmapped files that requests for static files share         *)
(* (mmap_cache.c, used by init_get in get.c and free_request in            *)
(* request.c): an open-addressed hash table whose entries are reference    *)
(* counted.                                                                *)
(***************************************************************************)
EXTENDS Integers, FiniteSets

CONSTANTS
  MMAP_LIST_SIZE,     \* 256
  MMAP_LIST_USE_MAX,  \* 128
  Files,              \* what fstat reports: pairs <<inode, size>>, of one device
  Requests,           \* request structures
  NoEntry             \* a null mmap_entry pointer

ASSUME SizeAssumption ==
  /\ MMAP_LIST_SIZE \in Nat \ {0} /\ MMAP_LIST_USE_MAX \in Nat
  /\ MMAP_LIST_USE_MAX + 1 < MMAP_LIST_SIZE
ASSUME FilesAssumption == Files \subseteq Nat \X Nat /\ Files # {}
ASSUME RequestsAssumption == IsFiniteSet(Requests)
ASSUME NoEntryAssumption == NoEntry \notin 0 .. MMAP_LIST_SIZE - 1 /\ NoEntry \notin Files

VARIABLES
  key,                    \* dev, ino and len of every entry
  use_count,              \* and its reference count
  mmap_list_entries_used,
  mmap_entry_var,         \* the entry a request holds
  asked                   \* the file that request was for (to state RightFile)

vars == <<key, use_count, mmap_list_entries_used, mmap_entry_var, asked>>

Entries == 0 .. MMAP_LIST_SIZE - 1
AnyFile == CHOOSE f \in Files : TRUE

MMAP_LIST_HASH(f) == f[1] % MMAP_LIST_SIZE
(* the entry d MMAP_LIST_NEXT steps after i *)
After(i, d) == (i + d) % MMAP_LIST_SIZE

StopsAtInode(i, f) == use_count[i] = 0 \/ key[i][1] = f[1]

(* the probe stops at an entry that is unused or holds f *)
Stops(i, f) == use_count[i] = 0 \/ key[i] = f
(* where the probe for f stops *)
Probe(f) ==
  LET i(d) == After(MMAP_LIST_HASH(f), d)
  IN  {i(d) : d \in {d \in Entries : /\ Stops(i(d), f)
                                     /\ \A e \in 0 .. d - 1 : ~Stops(i(e), f)}}

(* the table is static, so zero *)
Init ==
  /\ key = [i \in Entries |-> AnyFile] /\ use_count = [i \in Entries |-> 0]
  /\ mmap_list_entries_used = 0
  /\ mmap_entry_var = [r \in Requests |-> NoEntry]
  /\ asked = [r \in Requests |-> AnyFile]

(* init_get keeps what find_mmap returned *)
Hold(r, f, i) ==
  /\ mmap_entry_var' = [mmap_entry_var EXCEPT ![r] = i]
  /\ asked' = [asked EXCEPT ![r] = f]

(* an entry in use holds the file *)
Share(r, f) ==
  \E i \in Probe(f) :
    /\ use_count[i] > 0
    /\ use_count' = [use_count EXCEPT ![i] = @ + 1]
    /\ Hold(r, f, i)
    /\ UNCHANGED <<key, mmap_list_entries_used>>

Fill(r, f, i) ==
  /\ mmap_list_entries_used' = mmap_list_entries_used + 1
  /\ key' = [key EXCEPT ![i] = f]
  /\ use_count' = [use_count EXCEPT ![i] = 1]
  /\ Hold(r, f, i)

MapNewUnbounded(r, f) == \E i \in Probe(f) : use_count[i] = 0 /\ Fill(r, f, i)

(* a free entry takes the file, unless the table is too full *)
MapNew(r, f) ==
  \E i \in Probe(f) :
    /\ use_count[i] = 0
    /\ mmap_list_entries_used <= MMAP_LIST_USE_MAX
    /\ Fill(r, f, i)

(* find_mmap returns NULL: mmap failed, the table is too full, or the probe *)
(* went round.  init_get answers with an error and holds nothing.           *)
NotMapped(r, f) ==
  /\ \A i \in Probe(f) : use_count[i] = 0
  /\ UNCHANGED vars

(* a request asks for a file once: new_request clears mmap_entry_var *)
find_mmap(r, f) ==
  /\ mmap_entry_var[r] = NoEntry
  /\ Share(r, f) \/ MapNew(r, f) \/ NotMapped(r, f)

(* r drops its entry; left is the count it leaves behind, gone what the     *)
(* number of entries used falls by                                          *)
Drop(r, left, gone) ==
  /\ mmap_entry_var[r] # NoEntry
  /\ mmap_entry_var' = [mmap_entry_var EXCEPT ![r] = NoEntry]
  /\ use_count' = [use_count EXCEPT ![mmap_entry_var[r]] = left]
  /\ mmap_list_entries_used' = mmap_list_entries_used - gone
  /\ UNCHANGED <<key, asked>>

ReleaseKeepingUsed(r) == Drop(r, use_count[mmap_entry_var[r]] - 1, 0)
ReleaseForAll(r) == Drop(r, 0, 1)
ReleaseTwice(r) == Drop(r, use_count[mmap_entry_var[r]] - 2, 0)

(* free_request's call for the entry it holds: the last holder unmaps.  A   *)
(* count that is already zero is left alone.                                *)
release_mmap(r) ==
  LET n == use_count[mmap_entry_var[r]]
  IN  Drop(r, IF n = 0 THEN 0 ELSE n - 1, IF n = 1 THEN 1 ELSE 0)

Next == \E r \in Requests : (\E f \in Files : find_mmap(r, f)) \/ release_mmap(r)

Spec == Init /\ [][Next]_vars

-----------------------------------------------------------------------------
(* Properties                                                              *)

Holders(i) == {r \in Requests : mmap_entry_var[r] = i}
Used == {i \in Entries : use_count[i] > 0}

(* Every variable keeps its type; no reference count goes below zero.      *)
TypeOK ==
  /\ key \in [Entries -> Files] /\ use_count \in [Entries -> Nat]
  /\ mmap_list_entries_used \in Int
  /\ mmap_entry_var \in [Requests -> Entries \cup {NoEntry}]
  /\ asked \in [Requests -> Files]

(* A mapping's reference count is the number of requests that send from    *)
(* it, so release_mmap unmaps neither early, under a request that is still *)
(* sending, nor never.                                                     *)
CountsHolders == \A i \in Entries : use_count[i] = Cardinality(Holders(i))

(* mmap_list_entries_used, the only thing the size limit looks at, counts  *)
(* the entries in use.                                                     *)
EntriesCounted == mmap_list_entries_used = Cardinality(Used)

(* What a request sends from is the file it asked for: an entry is not     *)
(* given to another file while somebody holds it.                          *)
RightFile == \A r \in Requests : mmap_entry_var[r] # NoEntry => key[mmap_entry_var[r]] = asked[r]

(* "Shouldn't happen, because of size limit enforcement below": no probe   *)
(* of find_mmap goes all the way round the table.                          *)
ProbeStops == \A f \in Files : Probe(f) # {}

(* The table implements the store: what a request sends from is what its   *)
(* entry holds now, and a file is in memory if an entry in use holds it.   *)
Sends == [r \in Requests |-> IF mmap_entry_var[r] = NoEntry THEN NoEntry
                             ELSE key[mmap_entry_var[r]]]
Mapped == {key[i] : i \in Used}
Store == INSTANCE FileStore WITH NoFile <- NoEntry, sends <- Sends, mapped <- Mapped

(* No interleaving of requests makes find_mmap or release_mmap change what *)
(* another request sends, unmap a file that somebody sends, or keep one    *)
(* that nobody does.  (A file may be mapped twice: an entry released in    *)
(* front of it hides it from the probe.)                                   *)
ImplementsStore == Store!Spec
=============================================================================
