--------------------------- MODULE MemoryTransfer ---------------------------
(***************************************************************************)
(* Whole-corpus replication, crates/memory/src/transfer.rs: push makes the *)
(* namespace of a remote service a copy of the local corpus, and pull      *)
(* imports the namespace.  The sessions of MemoryStore work on the local   *)
(* store meanwhile and other sessions, in remote mode, on the namespace.   *)
(*                                                                         *)
(* An export is paged, and every page is a transaction of its own.  The    *)
(* service is the one of examples/tact-memory-cloudflare, whose tables and *)
(* conditions are those of the local store and whose operations are atomic *)
(* batches; a refused one still prunes.  A request that fails was carried  *)
(* out or was not; the client repeats a request only after an answer that  *)
(* says so or a failed connection, and none is carried out late (see the   *)
(* README).                                                                *)
(***************************************************************************)
EXTENDS MemoryStore

CONSTANTS
  PageSize,                  \* MAX_EXPORT_PAGE_RECORDS
  PushAttempts,              \* PUSH_ATTEMPTS
  Attempts                   \* ATTEMPTS of one request

ASSUME TransferAssumption ==
  PageSize \in Nat \ {0} /\ PushAttempts \in Nat \ {0} /\ Attempts \in Nat \ {0}

VARIABLES
  remote, remote_next,       \* the namespace, as memories and next_id
  step,                      \* the await the command is in
  snapshot,                  \* what a push uploads
  pages, cursor,             \* the export so far and its continuation
  attempt, tries,            \* uploads of the push, requests of the upload
  given,                     \* history: what was first shown under a key of
                             \* the namespace
  corpora,                   \* history: the local corpora since the command
                             \* began
  touched                    \* history: whether others have written to the
                             \* namespace since the last accepted upload

remoteVars   == <<remote, remote_next, given>>
exportVars   == <<pages, cursor>>
commandVars  == <<step, snapshot, exportVars, attempt, tries>>
transferVars == <<remoteVars, commandVars, touched>>
allVars      == <<vars, transferVars, corpora>>

Steps == {"idle", "read", "upload", "reread", "fetch", "merge",
          "pushed", "pulled", "failed"}

TransferInit ==
  /\ Init
  /\ remote = << >> /\ remote_next = 1 /\ given = << >>
  /\ step = "idle" /\ snapshot = << >> /\ pages = << >> /\ cursor = 0
  /\ attempt = 0 /\ tries = 0
  /\ corpora = {} /\ touched = FALSE
-----------------------------------------------------------------------------
(* The service: one batch on the namespace.                                *)
RemoteCommit(rows, next) ==
  /\ remote' = rows /\ remote_next' = next
  /\ given' = Recorded(given, rows)

(* Sessions in remote mode, their requests carried out: put, without and   *)
(* with a key, delete and read.  A put is sent once, and the repetition of *)
(* a delete finds nothing; so whether the answer arrives makes no          *)
(* difference.                                                             *)
RemoteSession ==
  /\ Works
  /\ touched' = TRUE
  /\ UNCHANGED <<storeVars, callVars, removed, commandVars, corpora>>

(* The batch fails when there is no next id.                               *)
RemotePut(content, t) ==
  /\ remote_next < MaxInt
  /\ LET rows == Pruned(remote, t) IN
     IF CanInsert(rows, remote_next, content)
     THEN RemoteCommit(With(rows, remote_next, Fresh(content, 1, t)),
                       remote_next + 1)
     ELSE RemoteCommit(rows, remote_next)
  /\ RemoteSession

RemoteReplace(key, content, t) ==
  /\ key[2] < MaxInt
  /\ LET rows == Pruned(remote, t) IN
     RemoteCommit(IF CanReplace(rows, key, content)
                  THEN Replaced(rows, key, content, t) ELSE rows, remote_next)
  /\ RemoteSession

RemoteDelete(key) ==
  /\ Names(key, remote)
  /\ RemoteCommit(Without(remote, key[1]), remote_next)
  /\ RemoteSession

RemoteRead(key, t) ==
  /\ RemoteCommit(AfterRead(Pruned(remote, t), key), remote_next)
  /\ RemoteSession
-----------------------------------------------------------------------------
LocalVars == <<callVars, work, removed>>

(* push: the writer's role was confirmed; it collects the local snapshot.  *)
StartPush ==
  /\ step = "idle" /\ step' = "read"
  /\ pages' = << >> /\ cursor' = 0 /\ attempt' = 1
  /\ corpora' = {memories}
  /\ UNCHANGED <<vars, remoteVars, snapshot, tries, touched>>

(* fault: only the keys of the two snapshots are compared                  *)
FaultyCurrent(records) == DOMAIN records = DOMAIN snapshot

(* Whether the uploaded snapshot still is the local corpus.                *)
Current(records) == records = snapshot

(* local_snapshot is complete.  The first one is uploaded; a later one     *)
(* shows whether the uploaded snapshot is still current.                   *)
Collected(records) ==
  \/ /\ step = "read"
     /\ step' = "upload" /\ snapshot' = records /\ UNCHANGED attempt
  \/ /\ step = "reread" /\ Current(records)
     /\ step' = "pushed" /\ UNCHANGED <<snapshot, attempt>>
  \/ /\ step = "reread" /\ ~Current(records) /\ attempt = PushAttempts
     /\ step' = "failed" /\ UNCHANGED <<snapshot, attempt>>
  \/ /\ step = "reread" /\ ~Current(records) /\ attempt < PushAttempts
     /\ step' = "upload" /\ snapshot' = records /\ attempt' = attempt + 1

(* export_all: one page of a table, and the cursor after it.               *)
Exported(rows) ==
  LET page == PageOf(rows, cursor, PageSize)
  IN  [records |-> [id \in DOMAIN pages \cup page |->
                      IF id \in page THEN rows[id] ELSE pages[id]],
       last |-> {id \in DOMAIN rows : id > cursor} = page,
       cursor |-> IF page = {} THEN cursor
                  ELSE CHOOSE id \in page : \A i \in page : i <= id]

PushReads(t) ==
  /\ step \in {"read", "reread"}
  /\ LET rows == Pruned(memories, t)
         e == Exported(rows)
         fits == WithinLimits(e.records)
     IN  /\ Update(rows)
         /\ corpora' = corpora \cup {rows}
         /\ \/ /\ ~fits /\ step' = "failed"
               /\ UNCHANGED <<snapshot, attempt, exportVars>>
            \/ /\ fits /\ ~e.last /\ pages' = e.records /\ cursor' = e.cursor
               /\ UNCHANGED <<step, snapshot, attempt>>
            \/ /\ fits /\ e.last /\ Collected(e.records)
               /\ pages' = << >> /\ cursor' = 0
  /\ tries' = 0
  /\ UNCHANGED <<LocalVars, remoteVars, touched>>

(* sync: the snapshot, if it is one of distinct records within the limits, *)
(* replaces the rows of the namespace, and its ids are observed.           *)
Applies ==
  /\ Distinct(snapshot) /\ WithinLimits(snapshot)
  /\ \E n \in Ids :
       /\ IsNext(n, remote_next, snapshot)
       /\ RemoteCommit(snapshot, n)

Uploads == step = "upload" /\ UNCHANGED <<vars, corpora, snapshot, exportVars>>

UploadAccepted ==
  /\ Uploads
  /\ Applies /\ touched' = FALSE
  /\ step' = "reread"
  /\ UNCHANGED <<attempt, tries>>

(* The service refuses a snapshot whose pages do not fit together.         *)
UploadRefused ==
  /\ Uploads
  /\ ~Distinct(snapshot)
  /\ step' = "failed"
  /\ UNCHANGED <<remoteVars, attempt, tries, touched>>

LastTry == tries + 1 = Attempts

(* An unavailable service or a failed connection; a request that was       *)
(* answered so may have been carried out.                                  *)
UploadRepeated ==
  /\ Uploads
  /\ (Applies \/ UNCHANGED remoteVars)
  /\ tries' = tries + 1
  /\ step' = IF LastTry THEN "failed" ELSE step
  /\ UNCHANGED <<attempt, touched>>

(* The answer is lost: the client does not repeat the request.             *)
UploadLost ==
  /\ Uploads
  /\ (Applies \/ UNCHANGED remoteVars)
  /\ step' = "failed"
  /\ UNCHANGED <<attempt, tries, touched>>
-----------------------------------------------------------------------------
(* pull: the visible rows, page by page, then one transaction that merges  *)
(* them.                                                                   *)
StartPull ==
  /\ step = "idle" /\ step' = "fetch"
  /\ pages' = << >> /\ cursor' = 0
  /\ UNCHANGED <<vars, remoteVars, snapshot, attempt, tries, corpora, touched>>

PullFetches(t) ==
  /\ step = "fetch"
  /\ LET e == Exported(Pruned(remote, t))
     IN  /\ pages' = e.records /\ cursor' = e.cursor
         /\ step' = IF ~WithinLimits(e.records) THEN "failed"
                    ELSE IF e.last THEN "merge" ELSE "fetch"
  /\ UNCHANGED <<vars, remoteVars, snapshot, attempt, tries, corpora, touched>>

(* merge_remote_export: an empty export does not even open the store.      *)
PullMerges(t) ==
  /\ step = "merge"
  /\ LET rows == Pruned(memories, t) IN
     \/ pages = << >> /\ step' = "pulled" /\ UNCHANGED storeVars
     \/ \E n \in Ids :
          /\ pages # << >>
          /\ IsNext(n, next_id, memories)
          /\ IF CanMerge(rows, n, pages)
             THEN /\ Commit(Merged(rows, n, pages, t),
                            n + Cardinality(Accepted(rows, pages)))
                  /\ step' = "pulled"
             ELSE Commit(memories, n) /\ step' = "failed"
  /\ UNCHANGED <<LocalVars, remoteVars, snapshot, exportVars, attempt, tries,
                 corpora, touched>>
-----------------------------------------------------------------------------
Over == step \in {"pushed", "pulled", "failed"}

(* The sessions on the local store go on.                                  *)
LocalSession ==
  /\ ~Over
  /\ Next
  /\ corpora' = IF step \in {"read", "upload", "reread"}
                THEN corpora \cup {memories'} ELSE corpora
  /\ UNCHANGED transferVars

TransferNext ==
  \/ LocalSession
  \/ StartPush \/ UploadAccepted \/ UploadRefused \/ UploadRepeated
  \/ UploadLost \/ StartPull
  \/ \E t \in Times :
       \/ PushReads(t) \/ PullFetches(t) \/ PullMerges(t)
       \/ \E content \in Contents : RemotePut(content, t)
       \/ \E key \in DOMAIN given :
            \/ RemoteRead(key, t)
            \/ \E content \in Contents : RemoteReplace(key, content, t)
  \/ \E key \in DOMAIN given : RemoteDelete(key)

TransferSpec == TransferInit /\ [][TransferNext]_allVars
-----------------------------------------------------------------------------
TransferTypeOK ==
  /\ TypeOK
  /\ IsTable(remote) /\ remote_next \in Ids
  /\ IsTable(snapshot) /\ IsTable(pages) /\ cursor \in 0 .. MaxInt
  /\ step \in Steps
  /\ attempt \in 0 .. PushAttempts /\ tries \in 0 .. Attempts
  /\ touched \in BOOLEAN

(* A push that reports success has uploaded the complete corpus of one     *)
(* moment, although it reads page by page while others write, and the      *)
(* namespace is an exact copy unless somebody else has written there.      *)
PushedTheCorpus ==
  step = "pushed" =>
    /\ snapshot \in corpora
    /\ touched \/ remote = snapshot

(* An id of the namespace, once given or observed in a snapshot, is not    *)
(* given to another record by the service.                                 *)
RemoteIdsStayRetired == \A k \in DOMAIN given : k[1] < remote_next

=============================================================================
