------------------------------- MODULE GcsCache -------------------------------
(***************************************************************************)
(* The estimate cache in its GCS mode: ListManager with the object of      *)
(* GoogleCloudCacheManager.ts.  The bucket replaces an object as a whole   *)
(* when an upload finishes; setEstimates ends the upload stream and does   *)
(* not wait for that, so an upload may outlive its request.                *)
(***************************************************************************)
EXTENDS ListManager

(* fetch: a provider call rejects; access: the bucket refuses a call;       *)
(* read: the stream that downloads an object fails; upload: an upload is    *)
(* given up; crash: the process is stopped.                                 *)
FaultKinds == {"fetch", "access", "read", "upload", "crash"}

ASSUME GcsCacheAssumption ==
    /\ Faults \subseteq FaultKinds
    /\ NoFile \notin Seq(Entry)

VARIABLES
    object,   \* object[g]: the entries of the object of grouping g
    uploads   \* uploads[r]: what r is uploading, or NoFile

vars == <<managerVars, object, uploads>>

Phases == {"idle", "exists", "save", "download", "fetch", "done", "failed"}

\* State and uploads are typed; entries lie in their calendar and grouping.
TypeOK ==
    /\ ManagerTypeOK
    /\ pc \in [Requests -> Phases]
    /\ object \in [Groupings -> Seq(Entry) \cup {NoFile}]
    /\ uploads \in [Requests -> Seq(Entry) \cup {NoFile}]

Init ==
    /\ ManagerInit
    /\ object = [g \in Groupings |-> NoFile]
    /\ uploads = [r \in Requests |-> NoFile]

-----------------------------------------------------------------------------
(* The environment.                                                         *)

Publish(g, d) == PublishUsage(g, d) /\ UNCHANGED <<object, uploads>>

Arrive(r, q) == Admit(r, q, "exists") /\ UNCHANGED <<object, uploads>>

\* The process ends, and with it the uploads.
ProcessEnds ==
    /\ LoseMemory
    /\ uploads' = [r \in Requests |-> NoFile]
    /\ UNCHANGED object

Crash ==
    /\ "crash" \in Faults
    /\ InFlight # {} \/ \E r \in Requests : uploads[r] # NoFile
    /\ ProcessEnds

-----------------------------------------------------------------------------
(* getCloudFileContent.                                                     *)

CheckExists(r) ==
    /\ pc[r] = "exists"
    /\ pc' = [pc EXCEPT ![r] = IF object[req[r].grp] = NoFile THEN "save" ELSE "download"]
    /\ UNCHANGED <<usage, lists, req, call, answer, crashes, overlapped, object, uploads>>

\* An empty object is saved, also over one that exists by now.
SaveEmpty(r) ==
    /\ pc[r] = "save"
    /\ object' = [object EXCEPT ![req[r].grp] = <<>>]
    /\ FindMissingDates(r, <<>>)
    /\ UNCHANGED <<usage, req, crashes, overlapped, uploads>>

Download(r) ==
    /\ pc[r] = "download"
    /\ FindMissingDates(r, object[req[r].grp])
    /\ UNCHANGED <<usage, req, crashes, overlapped, object, uploads>>

(* The stream that downloads the object fails.  pipe hands its error to     *)
(* nobody: no handler takes it, and it ends the process.                    *)
ReadStreamFails(r) == "read" \in Faults /\ pc[r] = "download" /\ ProcessEnds

\* Mutant: when the bucket refuses a call no date counts as missing.
AccessFailsTrusting(r) ==
    /\ "access" \in Faults
    /\ pc[r] \in {"exists", "save"}
    /\ AnswerFrom(r, cachedEstimates, fetchedEstimates)
    /\ UNCHANGED <<usage, lists, req, crashes, overlapped, object, uploads>>

(* The bucket refuses to look for the object or to save it: the error is    *)
(* logged and nothing counts as cached.                                     *)
AccessFails(r) ==
    /\ "access" \in Faults
    /\ pc[r] \in {"exists", "save"}
    /\ FindMissingDates(r, <<>>)
    /\ UNCHANGED <<usage, req, crashes, overlapped, object, uploads>>

-----------------------------------------------------------------------------
\* Mutant: the entries are stored without the cached ones of the window.
SetFetchedOnly(r) ==
    LET persist == ToPersist(r, AllFetched(r))
    IN /\ LastFetch(r)
       /\ AllFetched(r) # {} /\ ~req[r].ignoreCache
       /\ fetchedEstimates' = persist
       /\ uploads' = [uploads EXCEPT ![r] = persist]
       /\ AnswerFrom(r, cachedEstimates, persist)
       /\ UNCHANGED <<usage, cachedEstimates, req, crashes, overlapped, object>>

\* Mutant: the manager's list takes the new entries in as well.
SetIntoCached(r) ==
    LET persist == ToPersist(r, AllFetched(r))
    IN /\ LastFetch(r)
       /\ AllFetched(r) # {} /\ ~req[r].ignoreCache
       /\ fetchedEstimates' = persist
       /\ cachedEstimates' = cachedEstimates \o persist
       /\ uploads' = [uploads EXCEPT ![r] = cachedEstimates' \o persist]
       /\ AnswerFrom(r, cachedEstimates, persist)
       /\ UNCHANGED <<usage, req, crashes, overlapped, object>>

(* setEstimates starts an upload of the cached entries of the window and    *)
(* the fetched ones; none of its awaits waits for the bucket, so the        *)
(* request is answered at once.                                             *)
SetEstimates(r) ==
    LET persist == ToPersist(r, AllFetched(r))
    IN /\ LastFetch(r)
       /\ AllFetched(r) # {} /\ ~req[r].ignoreCache
       /\ fetchedEstimates' = persist
       /\ uploads' = [uploads EXCEPT ![r] = cachedEstimates \o persist]
       /\ AnswerFrom(r, cachedEstimates, persist)
       /\ UNCHANGED <<usage, cachedEstimates, req, crashes, overlapped, object>>

\* The bucket has received the whole upload.
UploadEnds(r) ==
    /\ uploads[r] # NoFile
    /\ object' = [object EXCEPT ![req[r].grp] = uploads[r]]
    /\ uploads' = [uploads EXCEPT ![r] = NoFile]
    /\ UNCHANGED managerVars

UploadFails(r) ==
    /\ "upload" \in Faults
    /\ uploads[r] # NoFile
    /\ uploads' = [uploads EXCEPT ![r] = NoFile]
    /\ UNCHANGED <<managerVars, object>>

-----------------------------------------------------------------------------
Fetch(r) ==
    /\ \/ \E run \in SUBSET Dates : FetchSome(r, run)
       \/ FetchUnstored(r)
       \/ FetchFails(r)
    /\ UNCHANGED <<object, uploads>>

Step(r) ==
    \/ CheckExists(r)
    \/ SaveEmpty(r)
    \/ Download(r)
    \/ AccessFails(r)
    \/ Fetch(r)
    \/ SetEstimates(r)

Next ==
    \/ \E g \in Groupings, d \in Dates : Publish(g, d)
    \/ \E r \in Requests, q \in RequestSpace : Arrive(r, q)
    \/ Crash
    \/ \E r \in Requests : Step(r) \/ ReadStreamFails(r) \/ UploadEnds(r) \/ UploadFails(r)

Spec == Init /\ [][Next]_vars
-----------------------------------------------------------------------------
(* Properties of the objects.                                               *)

StoredEntries(g) == IF object[g] = NoFile THEN <<>> ELSE object[g]

(* As long as no request ran beside another, an object, also one still      *)
(* being uploaded, holds one entry of a date, although its lists are joined *)
(* without looking for doubles, uploads outlive their requests and the      *)
(* bucket may fail.                                                         *)
ObjectOnce ==
    overlapped = {} =>
        \A entries \in {StoredEntries(g) : g \in Groupings}
                         \cup {uploads[r] : r \in {s \in Requests : uploads[s] # NoFile}} :
            \A i, j \in DOMAIN entries : entries[i].date = entries[j].date => i = j

(* What a request uploads in the object's place holds at least every date   *)
(* of its own window that the request was answered on.                      *)
UploadCoversAnswer ==
    \A r \in Requests : Served(r) /\ uploads[r] # NoFile =>
        \A d \in DatesWithinRequestTimeFrame(req[r]) :
            AnswersDate(r, d) => \E i \in DOMAIN uploads[r] : uploads[r][i].date = d
=============================================================================
