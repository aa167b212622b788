-------------------------- MODULE MmapCacheProofs --------------------------
(***************************************************************************)
(* Proofs about MmapCache, for any table, any files and any requests.      *)
(***************************************************************************)
EXTENDS MmapCache, FiniteSetTheorems, WellFoundedInduction, TLAPS

(* A mapping is counted for each of its holders, and is of the file they   *)
(* asked for.  RightFile is not inductive alone: an entry is taken for     *)
(* another file when its count is zero, which must mean that nobody holds  *)
(* it.                                                                     *)
MInv == TypeOK /\ CountsHolders /\ RightFile

(* The probe stays within the table, and stops at entries that are unused  *)
(* or hold the file.                                                       *)
LEMMA ProbeType ==
  ASSUME NEW f \in Files, NEW i \in Probe(f)
  PROVE  i \in Entries /\ Stops(i, f)
<1>1. MMAP_LIST_HASH(f) \in Entries
  <2>1. f[1] \in Nat
    BY FilesAssumption
  <2>2. QED
    BY <2>1, SizeAssumption DEF MMAP_LIST_HASH, Entries
<1>2. \A d \in Entries : After(MMAP_LIST_HASH(f), d) \in Entries
  BY <1>1, SizeAssumption DEF After, Entries
<1>3. QED
  BY <1>2 DEF Probe

(* A set of requests is finite; one more or one less changes its size by   *)
(* one.                                                                    *)
LEMMA HoldersSize ==
  ASSUME NEW S \in SUBSET Requests, NEW r \in Requests
  PROVE  /\ IsFiniteSet(S) /\ Cardinality(S) \in Nat
         /\ r \notin S => Cardinality(S \cup {r}) = Cardinality(S) + 1
         /\ r \in S => Cardinality(S \ {r}) = Cardinality(S) - 1
<1>1. IsFiniteSet(S)
  BY RequestsAssumption, FS_Subset
<1>2. QED
  BY <1>1, FS_CardinalityType, FS_AddElement, FS_RemoveElement

(* ... and so for sets of entries.                                         *)
LEMMA EntriesSize ==
  ASSUME NEW S \in SUBSET Entries, NEW i \in Entries
  PROVE  /\ IsFiniteSet(S) /\ Cardinality(S) \in Nat
         /\ i \notin S => Cardinality(S \cup {i}) = Cardinality(S) + 1
         /\ i \in S => Cardinality(S \ {i}) = Cardinality(S) - 1
<1>1. IsFiniteSet(Entries)
  BY SizeAssumption, FS_Interval DEF Entries
<1>2. IsFiniteSet(S)
  BY <1>1, FS_Subset
<1>3. QED
  BY <1>2, FS_CardinalityType, FS_AddElement, FS_RemoveElement

(* init_get lets r hold i: i gains the holder r, the others keep theirs.   *)
LEMMA HoldHolders ==
  ASSUME TypeOK, NEW r \in Requests, NEW f \in Files, NEW i \in Entries,
         mmap_entry_var[r] = NoEntry, Hold(r, f, i)
  PROVE  /\ Holders(i)' = Holders(i) \cup {r} /\ r \notin Holders(i)
         /\ \A j \in Entries \ {i} : Holders(j)' = Holders(j)
         /\ mmap_entry_var' \in [Requests -> Entries \cup {NoEntry}]
         /\ asked' \in [Requests -> Files]
BY NoEntryAssumption DEF TypeOK, Hold, Holders, Entries

(* An entry that nobody holds has count zero, and the other way round.     *)
LEMMA UnusedUnheld ==
  ASSUME MInv, NEW i \in Entries
  PROVE  use_count[i] = 0 <=> Holders(i) = {}
<1>1. IsFiniteSet(Holders(i))
  BY RequestsAssumption, FS_Subset DEF Holders
<1>2. QED
  BY <1>1, FS_EmptySet DEF MInv, CountsHolders

(* find_mmap *)
LEMMA FindKeeps ==
  ASSUME MInv, NEW r \in Requests, NEW f \in Files, find_mmap(r, f)
  PROVE  MInv'
<1>0. mmap_entry_var[r] = NoEntry /\ TypeOK
  BY DEF find_mmap, MInv
<1>1. CASE Share(r, f)
  <2>1. PICK i \in Probe(f) : /\ use_count[i] > 0
                              /\ use_count' = [use_count EXCEPT ![i] = @ + 1]
                              /\ Hold(r, f, i)
                              /\ UNCHANGED <<key, mmap_list_entries_used>>
    BY <1>1 DEF Share
  <2>2. i \in Entries /\ key[i] = f
    BY <2>1, ProbeType DEF Stops
  <2>3. /\ Holders(i)' = Holders(i) \cup {r} /\ r \notin Holders(i)
        /\ \A j \in Entries \ {i} : Holders(j)' = Holders(j)
        /\ mmap_entry_var' \in [Requests -> Entries \cup {NoEntry}]
        /\ asked' \in [Requests -> Files]
    BY <1>0, <2>1, <2>2, HoldHolders
  <2>4. Cardinality(Holders(i) \cup {r}) = Cardinality(Holders(i)) + 1
    BY <2>3, HoldersSize DEF Holders
  <2>5. TypeOK'
    BY <1>0, <2>1, <2>2, <2>3 DEF TypeOK
  <2>6. CountsHolders'
    BY <1>0, <2>1, <2>2, <2>3, <2>4 DEF MInv, CountsHolders, TypeOK
  <2>7. RightFile'
    BY <1>0, <2>1, <2>2 DEF MInv, RightFile, Hold, TypeOK
  <2>8. QED
    BY <2>5, <2>6, <2>7 DEF MInv
<1>2. CASE MapNew(r, f)
  <2>1. PICK i \in Probe(f) : use_count[i] = 0 /\ Fill(r, f, i)
    BY <1>2 DEF MapNew
  <2>2. i \in Entries
    BY <2>1, ProbeType
  <2>3. /\ Holders(i)' = Holders(i) \cup {r} /\ r \notin Holders(i)
        /\ \A j \in Entries \ {i} : Holders(j)' = Holders(j)
        /\ mmap_entry_var' \in [Requests -> Entries \cup {NoEntry}]
        /\ asked' \in [Requests -> Files]
    BY <1>0, <2>1, <2>2, HoldHolders DEF Fill
  <2>4. Holders(i) = {}
    BY <2>1, <2>2, UnusedUnheld
  <2>5. Holders(i)' = {r} /\ Cardinality({r}) = 1
    BY <2>3, <2>4, FS_Singleton
  <2>6. TypeOK'
    BY <1>0, <2>1, <2>2, <2>3 DEF TypeOK, Fill
  <2>7. CountsHolders'
    BY <1>0, <2>1, <2>2, <2>3, <2>5 DEF MInv, CountsHolders, TypeOK, Fill
  <2>8. RightFile'
    BY <1>0, <2>1, <2>2, <2>4 DEF MInv, RightFile, Fill, Hold, TypeOK, Holders
  <2>9. QED
    BY <2>6, <2>7, <2>8 DEF MInv
<1>3. CASE NotMapped(r, f)
  BY <1>3 DEF NotMapped, vars, MInv, TypeOK, CountsHolders, Holders, RightFile
<1>4. QED
  BY <1>1, <1>2, <1>3 DEF find_mmap

(* release_mmap *)
LEMMA ReleaseKeeps ==
  ASSUME MInv, NEW r \in Requests, release_mmap(r)
  PROVE  /\ MInv'
         /\ mmap_entry_var[r] \in Entries /\ use_count[mmap_entry_var[r]] > 0
         /\ use_count' = [use_count EXCEPT ![mmap_entry_var[r]] = @ - 1]
<1>0. mmap_entry_var[r] # NoEntry /\ TypeOK
  BY DEF release_mmap, Drop, MInv
<1>1. PICK i \in Entries : i = mmap_entry_var[r]
  BY <1>0 DEF TypeOK
<1>2. r \in Holders(i)
  BY <1>1 DEF Holders
<1>3. use_count[i] \in Nat /\ use_count[i] > 0
  BY <1>0, <1>2, UnusedUnheld DEF TypeOK
<1>4. /\ mmap_entry_var' = [mmap_entry_var EXCEPT ![r] = NoEntry]
      /\ use_count' = [use_count EXCEPT ![i] = use_count[i] - 1]
      /\ mmap_list_entries_used' = mmap_list_entries_used - (IF use_count[i] = 1 THEN 1 ELSE 0)
      /\ UNCHANGED <<key, asked>>
  <2>1. /\ use_count[i] # 0
        /\ use_count[i] - 1 = IF use_count[i] = 0 THEN 0 ELSE use_count[i] - 1
    BY <1>3
  <2>2. Drop(r, use_count[i] - 1, IF use_count[i] = 1 THEN 1 ELSE 0)
    BY <1>1, <2>1, Zenon DEF release_mmap
  <2>3. QED
    BY <1>1, <2>2 DEF Drop
<1>5. Holders(i)' = Holders(i) \ {r} /\ \A j \in Entries \ {i} : Holders(j)' = Holders(j)
  BY <1>0, <1>1, <1>4, NoEntryAssumption DEF Holders, TypeOK, Entries
<1>6. Cardinality(Holders(i) \ {r}) = Cardinality(Holders(i)) - 1
  BY <1>2, HoldersSize DEF Holders
<1>7. TypeOK'
  BY <1>0, <1>3, <1>4 DEF TypeOK
<1>8. CountsHolders'
  BY <1>0, <1>4, <1>5, <1>6 DEF MInv, CountsHolders, TypeOK
<1>9. RightFile'
  BY <1>0, <1>4 DEF MInv, RightFile, TypeOK
<1>10. QED
  BY <1>1, <1>3, <1>4, <1>7, <1>8, <1>9 DEF MInv

(* The invariant holds initially and is kept by every step.                *)
LEMMA InitMaps == Init => MInv
<1> SUFFICES ASSUME Init PROVE MInv
  OBVIOUS
<1>1. AnyFile \in Files
  BY FilesAssumption DEF AnyFile
<1>2. TypeOK
  BY <1>1 DEF Init, TypeOK
<1>3. \A i \in Entries : Holders(i) = {}
  BY NoEntryAssumption DEF Init, Holders, Entries
<1>4. CountsHolders
  BY <1>3, FS_EmptySet DEF Init, CountsHolders
<1>5. QED
  BY <1>2, <1>4 DEF Init, MInv, RightFile

(* Every step keeps the invariant.                                         *)
LEMMA MInvInductive == MInv /\ [Next]_vars => MInv'
<1> SUFFICES ASSUME MInv, [Next]_vars PROVE MInv'
  OBVIOUS
<1>1. CASE Next
  BY <1>1, FindKeeps, ReleaseKeeps DEF Next
<1>2. CASE UNCHANGED vars
  BY <1>2 DEF vars, MInv, TypeOK, CountsHolders, Holders, RightFile
<1>3. QED
  BY <1>1, <1>2

(* Every variable keeps its type, and no count falls below zero, although  *)
(* release_mmap subtracts without looking who holds the entry.             *)
THEOREM TypeCorrect == Spec => []TypeOK
<1>1. MInv => TypeOK
  BY DEF MInv
<1>2. QED
  BY <1>1, InitMaps, MInvInductive, PTL DEF Spec

(* Reference counts are the numbers of holders: release_mmap never unmaps  *)
(* under a request that is still sending, and the last holder does unmap.  *)
THEOREM HoldersCounted == Spec => []CountsHolders
<1>1. MInv => CountsHolders
  BY DEF MInv
<1>2. QED
  BY <1>1, InitMaps, MInvInductive, PTL DEF Spec

(* A request that holds a mapping holds that of the file it asked for.     *)
THEOREM FilesRight == Spec => []RightFile
<1>1. MInv => RightFile
  BY DEF MInv
<1>2. QED
  BY <1>1, InitMaps, MInvInductive, PTL DEF Spec

-----------------------------------------------------------------------------
(* The number of entries in use                                            *)

(* A step changes the set of entries in use by the entry it fills or       *)
(* empties, and mmap_list_entries_used with it.                            *)
LEMMA UsedCounted == MInv /\ EntriesCounted /\ [Next]_vars => EntriesCounted'
<1> SUFFICES ASSUME MInv, EntriesCounted, [Next]_vars PROVE EntriesCounted'
  OBVIOUS
<1>0. TypeOK /\ Used \subseteq Entries
  BY DEF MInv, Used
<1>1. ASSUME NEW r \in Requests, NEW f \in Files, Share(r, f) PROVE EntriesCounted'
  <2>1. PICK i \in Probe(f) : /\ use_count[i] > 0
                              /\ use_count' = [use_count EXCEPT ![i] = @ + 1]
                              /\ UNCHANGED mmap_list_entries_used
    BY <1>1 DEF Share
  <2>2. i \in Entries
    BY <2>1, ProbeType
  <2>3. Used' = Used
    BY <1>0, <2>1, <2>2 DEF Used, TypeOK
  <2>4. QED
    BY <2>1, <2>3 DEF EntriesCounted
<1>2. ASSUME NEW r \in Requests, NEW f \in Files, MapNew(r, f) PROVE EntriesCounted'
  <2>1. PICK i \in Probe(f) : use_count[i] = 0 /\ Fill(r, f, i)
    BY <1>2 DEF MapNew
  <2>2. i \in Entries
    BY <2>1, ProbeType
  <2>3. Used' = Used \cup {i} /\ i \notin Used
    BY <1>0, <2>1, <2>2 DEF Used, TypeOK, Fill
  <2>4. Cardinality(Used \cup {i}) = Cardinality(Used) + 1
    BY <1>0, <2>2, <2>3, EntriesSize
  <2>5. QED
    BY <2>1, <2>3, <2>4 DEF EntriesCounted, Fill
<1>3. ASSUME NEW r \in Requests, release_mmap(r) PROVE EntriesCounted'
  <2> DEFINE i == mmap_entry_var[r]
  <2>1. /\ i \in Entries /\ use_count[i] > 0
        /\ use_count' = [use_count EXCEPT ![i] = @ - 1]
    BY <1>3, ReleaseKeeps
  <2>2. mmap_list_entries_used' = mmap_list_entries_used - (IF use_count[i] = 1 THEN 1 ELSE 0)
    BY <1>3 DEF release_mmap, Drop
  <2>3. CASE use_count[i] = 1
    <3>1. Used' = Used \ {i} /\ i \in Used
      BY <1>0, <2>1, <2>3 DEF Used, TypeOK
    <3>2. Cardinality(Used \ {i}) = Cardinality(Used) - 1
      BY <1>0, <2>1, <3>1, EntriesSize
    <3>3. QED
      BY <2>2, <2>3, <3>1, <3>2 DEF EntriesCounted
  <2>4. CASE use_count[i] # 1
    <3>1. Used' = Used
      BY <1>0, <2>1, <2>4 DEF Used, TypeOK
    <3>2. QED
      BY <1>0, <2>2, <2>4, <3>1 DEF EntriesCounted, TypeOK
  <2>5. QED
    BY <2>3, <2>4
<1>4. CASE UNCHANGED vars
  BY <1>4 DEF vars, EntriesCounted, Used
<1>5. QED
  BY <1>1, <1>2, <1>3, <1>4 DEF Next, find_mmap, NotMapped

(* mmap_list_entries_used, which the size limit of find_mmap tests, is the *)
(* number of entries in use.                                               *)
THEOREM UseCounted == Spec => []EntriesCounted
<1>1. Init => EntriesCounted
  <2> SUFFICES ASSUME Init PROVE EntriesCounted
    OBVIOUS
  <2>1. Used = {}
    BY DEF Init, Used
  <2>2. QED
    BY <2>1, FS_EmptySet DEF Init, EntriesCounted
<1>2. QED
  BY <1>1, InitMaps, MInvInductive, UsedCounted, PTL DEF Spec

-----------------------------------------------------------------------------
(* The probe ends                                                          *)

(* The least-number principle, for a set of numbers                        *)
LEMMA SmallestOf ==
  ASSUME NEW S \in SUBSET Nat, S # {}
  PROVE  \E m \in S : \A k \in S : m <= k
<1> DEFINE R == OpToRel(<, Nat)
<1>1. IsWellFoundedOn(R, Nat)
  BY NatLessThanWellFounded
<1>2. \A p \in Nat \X Nat : p[1] < p[2] => p \in R
  BY DEF OpToRel
<1> HIDE DEF R
<1>3. PICK m \in S : \A y \in S : ~(<<y, m>> \in R)
  BY <1>1, WFMin
<1>4. \A k \in S : <<k, m>> \in Nat \X Nat /\ (k < m => <<k, m>> \in R)
  BY <1>2
<1>5. \A k \in S : k \in Nat /\ m \in Nat /\ ~(k < m)
  BY <1>3, <1>4
<1>6. QED
  BY <1>5

(* MMAP_LIST_NEXT goes round the table: from any entry, every entry is     *)
(* reached.                                                                *)
LEMMA AllReached ==
  ASSUME NEW h \in Entries, NEW i \in Entries
  PROVE  \E d \in Entries : After(h, d) = i
<1>1. h \in Nat /\ i \in Nat /\ h < MMAP_LIST_SIZE /\ i < MMAP_LIST_SIZE
      /\ MMAP_LIST_SIZE \in Nat \ {0}
  BY SizeAssumption DEF Entries
<1>2. CASE i >= h
  <2>1. i - h \in Entries /\ h + (i - h) = i
    BY <1>1, <1>2 DEF Entries
  <2>2. i % MMAP_LIST_SIZE = i
    BY <1>1
  <2>3. QED
    BY <2>1, <2>2 DEF After
<1>3. CASE i < h
  <2>1. i - h + MMAP_LIST_SIZE \in Entries /\ h + (i - h + MMAP_LIST_SIZE) = i + MMAP_LIST_SIZE
    BY <1>1, <1>3 DEF Entries
  <2>2. (i + MMAP_LIST_SIZE) % MMAP_LIST_SIZE = i
    BY <1>1
  <2>3. QED
    BY <2>1, <2>2 DEF After
<1>4. QED
  BY <1>1, <1>2, <1>3

(* As long as an entry is unused, the probe for any file stops.            *)
LEMMA FreeEntryStops ==
  ASSUME NEW f \in Files, NEW i \in Entries, use_count[i] = 0
  PROVE  Probe(f) # {}
<1> DEFINE h == MMAP_LIST_HASH(f)
           S == {d \in Entries : Stops(After(h, d), f)}
<1>1. h \in Entries
  <2>1. f[1] \in Nat
    BY FilesAssumption
  <2>2. QED
    BY <2>1, SizeAssumption DEF MMAP_LIST_HASH, Entries
<1>2. PICK e \in Entries : After(h, e) = i
  BY <1>1, AllReached
<1>3. e \in S
  BY <1>2 DEF Stops
<1>4. S \subseteq Nat /\ S # {}
  BY <1>3, SizeAssumption DEF Entries
<1>5. PICK m \in S : \A k \in S : m <= k
  BY <1>4, SmallestOf
<1>6. m \in Entries /\ Stops(After(h, m), f)
  OBVIOUS
<1>7. \A k \in 0 .. m - 1 : k \in Entries /\ ~(m <= k)
  BY <1>6, SizeAssumption DEF Entries
<1>8. \A k \in 0 .. m - 1 : ~Stops(After(h, k), f)
  BY <1>5, <1>7
<1>9. After(h, m) \in Probe(f)
  BY <1>6, <1>8 DEF Probe
<1>10. QED
  BY <1>9

(* The limit find_mmap enforces, with the entry by which its test is late  *)
TableBound == mmap_list_entries_used <= MMAP_LIST_USE_MAX + 1

(* A table that respects the limit has an unused entry.                    *)
LEMMA SomeUnused ==
  ASSUME TypeOK, EntriesCounted, TableBound
  PROVE  \E i \in Entries : use_count[i] = 0
<1>1. SUFFICES ASSUME \A i \in Entries : use_count[i] # 0 PROVE FALSE
  OBVIOUS
<1>2. Used = Entries
  BY <1>1 DEF Used, TypeOK
<1>3. Cardinality(Entries) = MMAP_LIST_SIZE
  <2>1. Cardinality(0 .. MMAP_LIST_SIZE - 1) = (MMAP_LIST_SIZE - 1) - 0 + 1
    BY SizeAssumption, FS_Interval
  <2>2. QED
    BY <2>1, SizeAssumption DEF Entries
<1>4. QED
  BY <1>2, <1>3, SizeAssumption DEF EntriesCounted, TableBound

(* "Shouldn't happen, because of size limit enforcement below": the probe  *)
(* of find_mmap never goes all the way round, although the limit is tested *)
(* before the new entry is counted.                                        *)
THEOREM ProbesStop == Spec => []ProbeStops
<1>1. Init => EntriesCounted /\ TableBound
  <2> SUFFICES ASSUME Init PROVE EntriesCounted /\ TableBound
    OBVIOUS
  <2>1. Used = {}
    BY DEF Init, Used
  <2>2. QED
    BY <2>1, FS_EmptySet, SizeAssumption DEF Init, EntriesCounted, TableBound
<1>2. MInv /\ TableBound /\ [Next]_vars => TableBound'
  <2> SUFFICES ASSUME MInv, TableBound, [Next]_vars PROVE TableBound'
    OBVIOUS
  <2>1. mmap_list_entries_used \in Int
    BY DEF MInv, TypeOK
  <2>2. ASSUME NEW r \in Requests, NEW f \in Files, find_mmap(r, f) PROVE TableBound'
    BY <2>1, <2>2, SizeAssumption
      DEF find_mmap, Share, MapNew, Fill, NotMapped, vars, TableBound
  <2>3. ASSUME NEW r \in Requests, release_mmap(r) PROVE TableBound'
    BY <2>1, <2>3, SizeAssumption DEF release_mmap, Drop, TableBound
  <2>4. CASE UNCHANGED vars
    BY <2>4 DEF vars, TableBound
  <2>5. QED
    BY <2>2, <2>3, <2>4 DEF Next
<1>3. MInv /\ EntriesCounted /\ TableBound => ProbeStops
  BY SomeUnused, FreeEntryStops DEF MInv, ProbeStops
<1>4. QED
  BY <1>1, <1>2, <1>3, InitMaps, MInvInductive, UsedCounted, PTL DEF Spec

-----------------------------------------------------------------------------
(* The table implements the abstract store                                 *)

(* What a set of senders keeps in memory                                   *)
Sent(snd) == {snd[r] : r \in {q \in Requests : snd[q] # NoEntry}}

(* The files in memory are those that somebody sends: an entry is in use   *)
(* exactly if it is held.                                                  *)
LEMMA MappedSent == MInv => Mapped = Sent(Sends)
<1> SUFFICES ASSUME MInv PROVE Mapped = Sent(Sends)
  OBVIOUS
<1>1. TypeOK
  BY DEF MInv
<1>2. \A i \in Entries : i \in Used <=> \E r \in Requests : mmap_entry_var[r] = i
  BY <1>1, UnusedUnheld DEF Used, Holders, TypeOK
<1>3. \A r \in Requests :
        /\ Sends[r] # NoEntry <=> mmap_entry_var[r] # NoEntry
        /\ mmap_entry_var[r] # NoEntry => /\ mmap_entry_var[r] \in Entries
                                          /\ Sends[r] = key[mmap_entry_var[r]]
  BY <1>1, NoEntryAssumption DEF Sends, TypeOK
<1>4. ASSUME NEW g \in Mapped PROVE g \in Sent(Sends)
  <2>1. PICK i \in Used : g = key[i]
    BY DEF Mapped
  <2>2. PICK r \in Requests : mmap_entry_var[r] = i
    BY <1>2 DEF Used
  <2>3. i # NoEntry
    BY NoEntryAssumption DEF Used, Entries
  <2>4. QED
    BY <1>3, <2>1, <2>2, <2>3 DEF Sent
<1>5. ASSUME NEW g \in Sent(Sends) PROVE g \in Mapped
  BY <1>2, <1>3 DEF Mapped, Sent
<1>6. QED
  BY <1>4, <1>5

(* find_mmap: whoever did not ask keeps sending what it sent               *)
LEMMA FindOpens ==
  ASSUME MInv, NEW r \in Requests, NEW f \in Files, Share(r, f) \/ MapNew(r, f),
         mmap_entry_var[r] = NoEntry
  PROVE  Sends[r] = NoEntry /\ Sends' = [Sends EXCEPT ![r] = f]
<1>0. TypeOK
  BY DEF MInv
<1>1. Sends[r] = NoEntry
  BY DEF Sends
<1>2. PICK i \in Entries : /\ Hold(r, f, i) /\ key'[i] = f
                           /\ \A q \in Requests : mmap_entry_var[q] # NoEntry =>
                                key'[mmap_entry_var[q]] = key[mmap_entry_var[q]]
  <2>1. CASE Share(r, f)
    <3>1. PICK i \in Probe(f) : use_count[i] > 0 /\ Hold(r, f, i) /\ UNCHANGED key
      BY <2>1 DEF Share
    <3>2. i \in Entries /\ key[i] = f
      BY <3>1, ProbeType DEF Stops
    <3>3. QED
      BY <3>1, <3>2
  <2>2. CASE MapNew(r, f)
    <3>1. PICK i \in Probe(f) : use_count[i] = 0 /\ Fill(r, f, i)
      BY <2>2 DEF MapNew
    <3>2. i \in Entries
      BY <3>1, ProbeType
    <3>3. Holders(i) = {}
      BY <3>1, <3>2, UnusedUnheld
    <3>4. \A q \in Requests : mmap_entry_var[q] # i
      BY <3>3 DEF Holders
    <3>5. QED
      BY <1>0, <3>1, <3>2, <3>4 DEF Fill, TypeOK
  <2>3. QED
    BY <2>1, <2>2
<1>3. i # NoEntry
  BY NoEntryAssumption DEF Entries
<1>4. \A q \in Requests : Sends'[q] = IF q = r THEN f ELSE Sends[q]
  BY <1>0, <1>2, <1>3 DEF Sends, Hold, TypeOK
<1>5. QED
  BY <1>1, <1>4 DEF Sends

(* release_mmap: the request stops sending, nobody else does               *)
LEMMA ReleaseCloses ==
  ASSUME MInv, NEW r \in Requests, release_mmap(r)
  PROVE  Sends[r] # NoEntry /\ Sends' = [Sends EXCEPT ![r] = NoEntry]
<1>0. TypeOK
  BY DEF MInv
<1>1. /\ mmap_entry_var[r] # NoEntry /\ UNCHANGED key
      /\ mmap_entry_var' = [mmap_entry_var EXCEPT ![r] = NoEntry]
  BY DEF release_mmap, Drop
<1>2. Sends[r] # NoEntry
  BY <1>0, <1>1, NoEntryAssumption DEF Sends, TypeOK
<1>3. \A q \in Requests : Sends'[q] = IF q = r THEN NoEntry ELSE Sends[q]
  BY <1>0, <1>1 DEF Sends, TypeOK
<1>4. QED
  BY <1>2, <1>3 DEF Sends

(* The hash table, with its probing, sharing and reuse of entries, is a    *)
(* store of files: a step of a request opens or closes a file for that     *)
(* request and changes nothing for the others.                             *)
THEOREM TableImplementsStore == Spec => ImplementsStore
<1>1. Init => Store!Init
  BY DEF Init, Store!Init, Sends, Mapped, Used
<1>2. MInv /\ MInv' /\ [Next]_vars => [Store!Next]_(Store!vars)
  <2> SUFFICES ASSUME MInv, MInv', [Next]_vars PROVE [Store!Next]_(Store!vars)
    OBVIOUS
  <2>0. Mapped = Sent(Sends) /\ Mapped' = Sent(Sends')
    <3>1. (MInv => Mapped = Sent(Sends))'
      BY MappedSent, PTL
    <3>2. QED
      BY <3>1, MappedSent DEF Sent
  <2>1. ASSUME NEW r \in Requests, NEW f \in Files, find_mmap(r, f)
        PROVE  [Store!Next]_(Store!vars)
    <3>1. CASE NotMapped(r, f)
      BY <3>1 DEF NotMapped, vars, Store!vars, Sends, Mapped, Used
    <3>2. CASE Share(r, f) \/ MapNew(r, f)
      <4>1. Sends[r] = NoEntry /\ Sends' = [Sends EXCEPT ![r] = f]
        BY <2>1, <3>2, FindOpens DEF find_mmap
      <4>2. f # NoEntry /\ Sends = [q \in Requests |-> Sends[q]]
        BY NoEntryAssumption DEF Sends
      <4>3. Mapped' = Mapped \cup {f}
        BY <2>0, <4>1, <4>2 DEF Sent
      <4>4. QED
        BY <4>1, <4>3 DEF Store!Next, Store!Open
    <3>3. QED
      BY <2>1, <3>1, <3>2 DEF find_mmap
  <2>2. ASSUME NEW r \in Requests, release_mmap(r) PROVE [Store!Next]_(Store!vars)
    <3>1. Sends[r] # NoEntry /\ Sends' = [Sends EXCEPT ![r] = NoEntry]
      BY <2>2, ReleaseCloses
    <3>2. Sends = [q \in Requests |-> Sends[q]]
      BY DEF Sends
    <3>3. Mapped' = IF \E s \in Requests \ {r} : Sends[s] = Sends[r]
                    THEN Mapped ELSE Mapped \ {Sends[r]}
      BY <2>0, <3>1, <3>2 DEF Sent
    <3>4. QED
      BY <3>1, <3>3 DEF Store!Next, Store!Close
  <2>3. CASE UNCHANGED vars
    BY <2>3 DEF vars, Store!vars, Sends, Mapped, Used
  <2>4. QED
    BY <2>1, <2>2, <2>3 DEF Next
<1>3. QED
  BY <1>1, <1>2, InitMaps, MInvInductive, PTL DEF Spec, ImplementsStore, Store!Spec
=============================================================================
