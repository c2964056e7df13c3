-------------------------------- MODULE Backup --------------------------------
(***************************************************************************)
(* /backup, the daily backup and /restore (core/db/backup.go,              *)
(* handlers/backup.go).  A backup writes one entry per collection into a   *)
(* zip file; a restore drops the collection of each entry and inserts the  *)
(* entry's documents again, in batches.  Both go on after an error with    *)
(* the next collection, and neither the handlers nor the caches wait.      *)
(***************************************************************************)
EXTENDS Documents

VARIABLE
    archive   \* external: the last backup file sent to the chat, or None

CollectionOf(d) ==
    CASE d \in Chats -> "chats"
      [] d = "auth" -> "auth"
      [] d = "user" -> "users"
      [] OTHER -> "cache"

Collections == {CollectionOf(d) : d \in Docs}

In(c) == {d \in Docs : CollectionOf(d) = c}

\* entries: the collections with an entry; docs: what the entries hold; truth:
\* history, what was stored when the backup began; whole: history, no error
\* was reported and no write overlapped it.
BackupTypeOK ==
    archive # None =>
        /\ archive.entries \subseteq Collections
        /\ \A d \in Docs : {archive.docs[d], archive.truth[d]} \subseteq Values(d) \cup {None}
        /\ archive.whole \in BOOLEAN

Nothing == [d \in Docs |-> None]

\* A collection without documents is not listed.
Listing == {c \in Collections : \E d \in In(c) : stored[d] # None}

\* The file of a backup that all went well with.
Whole(docs) ==
    [entries |-> {c \in Collections : \E d \in In(c) : docs[d] # None},
     docs |-> docs, truth |-> docs, whole |-> TRUE]

\* The collections come in an order that is the server's, and the file's.
Turn(p) == CHOOSE c \in local[p].todo : TRUE

-----------------------------------------------------------------------------
\* BackupToZip; by /backup or by the clock, which comes round once a day.
StartBackup(p) ==
    /\ At(p, "idle")
    /\ Goto(p, "backup", [Fresh EXCEPT !.cmd = "backup", !.todo = Listing,
         !.list = [entries |-> {}, docs |-> Nothing, truth |-> stored, whole |-> TRUE]])
    /\ dirty' = dirty \ {p}
    /\ UNCHANGED <<stored, cached, outdated, archive>>

\* One entry: the collection's documents, or, after an error, some of them.
\* Documents are written as relaxed extended JSON and read back from it: a
\* number may come back as another type of integer, of the same value, which is
\* how the server compares numbers, so a document comes back as what it was.
backupOneCollection(p) ==
    /\ At(p, "backup") /\ local[p].todo # {}
    /\ LET c == Turn(p)
           there == {d \in In(c) : stored[d] # None}
           a == local[p].list IN
       \E kept \in SUBSET there :
         /\ kept = there \/ "database" \in Faults
         /\ Goto(p, "backup", [local[p] EXCEPT
              !.todo = @ \ {c},
              !.failed = @ \/ kept # there,
              !.list = [a EXCEPT !.entries = @ \cup {c},
                                 !.docs = [d \in Docs |-> IF d \in kept THEN stored[d] ELSE @[d]]]])
    /\ UNCHANGED <<docVars, archive>>

\* The file is sent with its report, or is lost.
runBackup(p) ==
    /\ At(p, "backup") /\ local[p].todo = {}
    /\ \/ archive' = [local[p].list EXCEPT !.whole = ~local[p].failed /\ p \notin dirty]
       \/ "telegram" \in Faults /\ UNCHANGED archive
    /\ dirty' = dirty \ {p}
    /\ Return(p)
    /\ UNCHANGED <<stored, cached, outdated>>

-----------------------------------------------------------------------------
\* RestoreFromZip.
restoreHandler(p) ==
    /\ At(p, "idle") /\ archive # None
    /\ Goto(p, "restore", [Fresh EXCEPT !.cmd = "restore", !.todo = archive.entries,
                                        !.list = archive])
    /\ dirty' = dirty \ {p}
    /\ UNCHANGED <<stored, cached, outdated, archive>>

Overwrite(p, ds) ==
    /\ outdated' = outdated \cup Remembered(p, ds)
    /\ dirty' = dirty \cup {q \in Procs \ {p} : Archiving(q)}
    /\ UNCHANGED <<cached, archive>>

\* Mutant of DropCollection: the collection is not dropped.
BugDropCollection(p) ==
    /\ At(p, "restore") /\ local[p].todo # {}
    /\ LET c == Turn(p) IN
         Goto(p, "insert", [local[p] EXCEPT !.todo = @ \ {c},
           !.targets = {d \in In(c) : local[p].list.docs[d] # None /\ stored[d] = None}])
    /\ UNCHANGED <<docVars, archive>>

DropCollection(p) ==
    /\ At(p, "restore") /\ local[p].todo # {}
    /\ LET c == Turn(p) IN
         \/ /\ stored' = [d \in Docs |-> IF d \in In(c) THEN None ELSE stored[d]]
            /\ Goto(p, "insert", [local[p] EXCEPT !.todo = @ \ {c},
                 !.targets = {d \in In(c) : local[p].list.docs[d] # None}])
            /\ Overwrite(p, In(c))
         \/ /\ "database" \in Faults
            /\ Goto(p, "restore", [local[p] EXCEPT !.todo = @ \ {c}, !.failed = TRUE])
            /\ UNCHANGED <<docVars, archive>>

\* A document that has been made anew meanwhile is a duplicate: what is left
\* of its batch is not inserted, nor are the batches after it.
InsertDocument(p) ==
    /\ At(p, "insert")
    /\ \E d \in local[p].targets :
         \/ /\ stored[d] = None
            /\ stored' = [stored EXCEPT ![d] = local[p].list.docs[d]]
            /\ Overwrite(p, {d})
            /\ Goto(p, "insert", [local[p] EXCEPT !.targets = @ \ {d}])
         \/ /\ stored[d] # None \/ "database" \in Faults
            /\ Goto(p, "restore", [local[p] EXCEPT !.targets = {}, !.failed = TRUE])
            /\ UNCHANGED <<docVars, archive>>

Restored(p) ==
    /\ At(p, "insert") /\ local[p].targets = {}
    /\ Jump(p, "restore")
    /\ UNCHANGED <<docVars, archive>>

restoreOneCollection(p) == DropCollection(p) \/ InsertDocument(p) \/ Restored(p)

RestoreReported(p) ==
    /\ At(p, "restore") /\ local[p].todo = {}
    /\ dirty' = dirty \ {p}
    /\ Return(p)
    /\ UNCHANGED <<stored, cached, outdated, archive>>

BackupStep(p) ==
    backupOneCollection(p) \/ runBackup(p) \/ restoreOneCollection(p) \/ RestoreReported(p)

-----------------------------------------------------------------------------
\* "Restore complete" without a failed collection, for a backup reported
\* without one, brings back what was stored when the backup began, in every
\* collection that had a document, if nothing was written during either
\* (backup.go, lines 156 to 163).
RestoreExact ==
    \A p \in Procs :
        /\ At(p, "restore") /\ local[p].todo = {} /\ ~local[p].failed /\ p \notin dirty
        /\ local[p].list.whole
        => \A c \in local[p].list.entries : \A d \in In(c) : stored[d] = local[p].list.truth[d]

=============================================================================
