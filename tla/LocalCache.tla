------------------------------ MODULE LocalCache ------------------------------
(***************************************************************************)
(* The estimate cache in its default, LOCAL mode: ListManager with the     *)
(* JSON files of LocalCacheManager.ts.  Reading a file and writing it take *)
(* several steps each, between which other requests run.                   *)
(***************************************************************************)
EXTENDS ListManager

CONSTANTS
    ReadSize,      \* the cells the read stream delivers at a time
    WindowSize     \* DATA_WINDOW_SIZE: the entries written at a time

(* fetch: a provider call rejects; store: opening or writing the file       *)
(* fails; create: the missing file cannot be created; access: a file that   *)
(* is there cannot be accessed; read: the stream that reads it fails;       *)
(* crash: the process is stopped.                                           *)
FaultKinds == {"fetch", "store", "create", "access", "read", "crash"}

Cell == [entry: Entry, part: Nat]

ASSUME LocalCacheAssumption ==
    /\ ReadSize \in Nat \ {0} /\ WindowSize \in Nat \ {0}
    /\ Faults \subseteq FaultKinds
    /\ NoFile \notin Seq(Cell)

VARIABLES
    file,   \* file[g]: the cells of the cache file of grouping g
    io      \* io[r]: what r reads and writes, see NoIO

vars == <<managerVars, file, io>>

Phases == {"idle", "access", "create", "read", "fetch", "open", "write",
           "close", "done", "failed"}

(* buf: what has been read of the file; toStore: what setEstimates was      *)
(* given, merged with the cached entries; out: the merged entries still to  *)
(* be written; at: the position in the file.                                *)
NoIO == [buf |-> <<>>, toStore |-> <<>>, out |-> <<>>, at |-> 0]

\* State, file and reads are typed; entries lie in their calendar and grouping.
TypeOK ==
    /\ ManagerTypeOK
    /\ pc \in [Requests -> Phases]
    /\ file \in [Groupings -> Seq(Cell) \cup {NoFile}]
    /\ io \in [Requests -> [buf: Seq(Cell), toStore: Seq(Entry), out: Seq(Entry), at: Nat]]

Init ==
    /\ ManagerInit
    /\ file = [g \in Groupings |-> NoFile]
    /\ io = [r \in Requests |-> NoIO]

-----------------------------------------------------------------------------
(* The environment.                                                         *)

Publish(g, d) == PublishUsage(g, d) /\ UNCHANGED <<file, io>>

Arrive(r, q) == Admit(r, q, "access") /\ UNCHANGED <<file, io>>

(* The process ends: its memory is lost, and of the window being written    *)
(* any part may be in the file.                                             *)
ProcessEnds ==
    /\ LoseMemory
    /\ io' = [r \in Requests |-> NoIO]
    /\ \/ UNCHANGED file
       \/ \E r \in {s \in InFlight : pc[s] = "write"} :
             LET cells == Cells(Slice(io[r].out, 1, WindowSize))
             IN \E k \in 1 .. Len(cells) :
                   file' = [file EXCEPT ![req[r].grp] =
                               Overlay(@, io[r].at, SubSeq(cells, 1, k))]

Crash == "crash" \in Faults /\ InFlight # {} /\ ProcessEnds

-----------------------------------------------------------------------------
(* loadEstimates, when looking for missing dates and again when storing.    *)

\* Mutant: only what is being stored is written, not what the file holds.
WriteWithoutMerge(r, entries) ==
    /\ io' = [io EXCEPT ![r] = [NoIO EXCEPT !.out = io[r].toStore]]
    /\ pc' = [pc EXCEPT ![r] = "write"]
    /\ UNCHANGED <<lists, call, answer>>

\* fileHandle has the content of the file: merge the entries to store into it.
MergeIntoFile(r, entries) ==
    /\ io' = [io EXCEPT ![r] = [NoIO EXCEPT !.out = MergeEstimates(io[r].toStore, entries)]]
    /\ pc' = [pc EXCEPT ![r] = "write"]
    /\ UNCHANGED <<lists, call, answer>>

Loaded(r, entries) ==
    IF io[r].toStore = <<>>
    THEN FindMissingDates(r, entries) /\ io' = [io EXCEPT ![r] = NoIO]
    ELSE MergeIntoFile(r, entries)

AccessFile(r) ==
    /\ pc[r] = "access"
    /\ pc' = [pc EXCEPT ![r] = IF file[req[r].grp] = NoFile THEN "create" ELSE "read"]
    /\ UNCHANGED <<usage, lists, req, call, answer, crashes, overlapped, file, io>>

\* createCacheFile empties the file, also when it exists by now.
CreateCacheFile(r) ==
    /\ pc[r] = "create"
    /\ file' = [file EXCEPT ![req[r].grp] = <<>>]
    /\ Loaded(r, <<>>)
    /\ UNCHANGED <<usage, req, crashes, overlapped>>

\* The file cannot be accessed, though it is there: it counts as empty.
AccessFails(r) ==
    /\ "access" \in Faults
    /\ pc[r] = "access" /\ file[req[r].grp] # NoFile
    /\ Loaded(r, <<>>)
    /\ UNCHANGED <<usage, req, crashes, overlapped, file>>

CreateFails(r) ==
    /\ "create" \in Faults
    /\ pc[r] = "create"
    /\ Reject(r)
    /\ UNCHANGED <<file, io>>

ReadChunk(r) ==
    LET cells == file[req[r].grp]
        got == Len(io[r].buf)
    IN /\ pc[r] = "read"
       /\ got < Len(cells)
       /\ io' = [io EXCEPT ![r].buf = @ \o Slice(cells, got + 1, got + ReadSize)]
       /\ UNCHANGED <<managerVars, file>>

(* The stream that reads the file fails.  pipe hands its error to nobody:   *)
(* no handler takes it, and it ends the process.                            *)
ReadStreamFails(r) == "read" \in Faults /\ pc[r] = "read" /\ ProcessEnds

AtEndOfFile(r) == pc[r] = "read" /\ Len(file[req[r].grp]) <= Len(io[r].buf)

\* Mutant: a line that does not parse is not reported, the load never ends.
ReadEndIfParsed(r) ==
    /\ AtEndOfFile(r)
    /\ Parses(io[r].buf)
    /\ Loaded(r, CachedData(io[r].buf))
    /\ UNCHANGED <<usage, req, crashes, overlapped, file>>

\* Mutant: a file that does not parse leaves no date missing.
ReadEndTrusting(r) ==
    /\ AtEndOfFile(r)
    /\ IF Parses(io[r].buf)
       THEN Loaded(r, CachedData(io[r].buf))
       ELSE AnswerFrom(r, cachedEstimates, fetchedEstimates) /\ UNCHANGED <<lists, io>>
    /\ UNCHANGED <<usage, req, crashes, overlapped, file>>

\* The end of the file; one that does not parse counts as empty.
ReadEnd(r) ==
    /\ AtEndOfFile(r)
    /\ \E entries \in {CachedData(io[r].buf)} : Loaded(r, entries)
    /\ UNCHANGED <<usage, req, crashes, overlapped, file>>

-----------------------------------------------------------------------------
(* setEstimates: the file is opened for update, loaded again, merged, and   *)
(* written over.                                                            *)

SetEstimates(r) ==
    LET persist == ToPersist(r, AllFetched(r))
    IN /\ LastFetch(r)
       /\ AllFetched(r) # {} /\ ~req[r].ignoreCache
       /\ fetchedEstimates' = persist
       /\ io' = [io EXCEPT ![r].toStore = MergeEstimates(persist, cachedEstimates)]
       /\ pc' = [pc EXCEPT ![r] = "open"]
       /\ call' = [call EXCEPT ![r] = NoCall]
       /\ UNCHANGED <<usage, cachedEstimates, req, answer, crashes, overlapped, file>>

OpenFile(r) ==
    /\ pc[r] = "open"
    /\ pc' = [pc EXCEPT ![r] = "access"]
    /\ UNCHANGED <<usage, lists, req, call, answer, crashes, overlapped, file, io>>

\* Opening or writing fails: the error is logged, the request goes on.
StoreFails(r) ==
    /\ "store" \in Faults
    /\ pc[r] \in {"open", "write"}
    /\ pc' = [pc EXCEPT ![r] = "close"]
    /\ UNCHANGED <<usage, lists, req, call, answer, crashes, overlapped, file, io>>

\* writeToFile writes the entries one window after the other.
WriteWindow(r) ==
    LET cells == Cells(Slice(io[r].out, 1, WindowSize))
        rest == SubSeq(io[r].out, WindowSize + 1, Len(io[r].out))
    IN /\ pc[r] = "write"
       /\ file' = [file EXCEPT ![req[r].grp] = Overlay(@, io[r].at, cells)]
       /\ io' = [io EXCEPT ![r].out = rest, ![r].at = @ + Len(cells)]
       /\ pc' = IF rest = <<>> THEN [pc EXCEPT ![r] = "close"] ELSE pc
       /\ UNCHANGED <<usage, lists, req, call, answer, crashes, overlapped>>

Close(r) ==
    /\ pc[r] = "close"
    /\ AnswerFrom(r, cachedEstimates, fetchedEstimates)
    /\ io' = [io EXCEPT ![r] = NoIO]
    /\ UNCHANGED <<usage, lists, req, crashes, overlapped, file>>

-----------------------------------------------------------------------------
Fetch(r) ==
    /\ \/ \E run \in SUBSET Dates : FetchSome(r, run)
       \/ FetchUnstored(r)
       \/ FetchFails(r)
    /\ UNCHANGED <<file, io>>

Step(r) ==
    \/ AccessFile(r)
    \/ CreateCacheFile(r)
    \/ AccessFails(r)
    \/ CreateFails(r)
    \/ ReadChunk(r)
    \/ ReadEnd(r)
    \/ Fetch(r)
    \/ SetEstimates(r)
    \/ OpenFile(r)
    \/ StoreFails(r)
    \/ WriteWindow(r)
    \/ Close(r)

Next ==
    \/ \E g \in Groupings, d \in Dates : Publish(g, d)
    \/ \E r \in Requests, q \in RequestSpace : Arrive(r, q)
    \/ Crash
    \/ \E r \in Requests : Step(r) \/ ReadStreamFails(r)

Spec == Init /\ [][Next]_vars

(* Every await of a request settles while the process runs.                 *)
FairSpec == Spec /\ \A r \in Requests : WF_vars(Step(r))
-----------------------------------------------------------------------------
(* Properties of the files.                                                 *)

\* Nobody is writing, and nobody has overlapped another or been cut short.
Undisturbed == overlapped = {} /\ crashes = 0 /\ \A r \in InFlight : pc[r] # "write"

StoredEntries(g) == IF file[g] = NoFile THEN <<>> ELSE CachedData(file[g])

StoredDates(g) == {StoredEntries(g)[i].date : i \in DOMAIN StoredEntries(g)}

(* As long as requests come one at a time and no access and no write fails, *)
(* however the contents grew, every line of a cache file parses, and the    *)
(* entries are in order with at most one of a date: what mergeEstimates     *)
(* relies on at the next store.                                             *)
FileSound ==
    Undisturbed /\ Faults \cap {"access", "store"} = {} => \A g \in Groupings :
        /\ file[g] # NoFile => Parses(file[g])
        /\ \A i, j \in DOMAIN StoredEntries(g) :
              i < j => Timestamp(StoredEntries(g)[i]) < Timestamp(StoredEntries(g)[j])

(* Storing the entries of one window never costs those of another: as long  *)
(* as requests come one at a time and nothing fails to be stored, the dates *)
(* an earlier request was answered on are cached.                           *)
NothingForgotten ==
    Undisturbed /\ Faults \cap {"access", "store", "create"} = {} =>
        \A r \in Requests : Served(r) => AnsweredDates(r) \subseteq StoredDates(req[r].grp)

(* No failure leaves a request waiting: it is answered, or rejected, or     *)
(* lost with its process.                                                   *)
EveryRequestSettles ==
    \A r \in Requests : pc[r] = "access" ~> pc[r] \in {"done", "failed"}
=============================================================================
