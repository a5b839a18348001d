----------------------------- MODULE Attachments -----------------------------
(***************************************************************************)
(* The pictures of chat messages (core/timeline_attachments.py): rows in   *)
(* the shared database and one file for each row.  The files of a message  *)
(* are written while the transaction that will insert its rows is open, so *)
(* they are there before the rows are; what a creator leaves behind when   *)
(* it fails or dies is collected by the maintenance, which must not take   *)
(* the files of a creator that has not committed yet.                      *)
(*                                                                         *)
(* BEGIN IMMEDIATE admits one writer.  Names, types and hashes are left    *)
(* out: a body stands for all that _verify_reused compares.                *)
(***************************************************************************)
EXTENDS Naturals, FiniteSets

CONSTANTS
    Messages,     \* (user_subject, message_key) pairs
    Bodies,       \* what the pictures of one message contain
    Size,         \* the number of pictures of a message
    Ids,          \* attachment ids; each is drawn once
    Creators,     \* calls that create attachments
    MaxCrashes,   \* bound on hard exits of the process
    None          \* no writer, message, body or attachment

AttachmentsAssumption ==
    /\ None \notin Messages /\ None \notin Bodies /\ None \notin Creators /\ None \notin Ids
    /\ Size \in Nat \ {0}
    /\ MaxCrashes \in Nat

VARIABLES
    row,          \* timeline_attachments
    disk,         \* the files of the cache directory
    drawn,        \* ids that token_urlsafe has returned
    writer,       \* who has the write transaction open
    maker,        \* maker[c]: what creator c is doing
    reader,       \* the id whose body is being read, after its transaction
    pruner,       \* ids whose files the maintenance is still to remove
    crashes

vars == <<row, disk, drawn, writer, maker, reader, pruner, crashes>>

NoRow == [state |-> "none", of |-> None, body |-> None, late |-> FALSE]
Idle == [pc |-> "idle", of |-> None, body |-> None, files |-> {}]

Init ==
    /\ row = [i \in Ids |-> NoRow]
    /\ disk = [i \in Ids |-> "none"]
    /\ drawn = {}
    /\ writer = None
    /\ maker = [c \in Creators |-> Idle]
    /\ reader = None
    /\ pruner = {}
    /\ crashes = 0

Rows(m) == {i \in Ids : row[i].state # "none" /\ row[i].of = m}

-----------------------------------------------------------------------------
(* Creating.                                                               *)

\* The transaction begins.  Rows of the message that exist are answered with,
\* or the retry is refused; either ends the transaction as it began.
Begin(c, m, b) ==
    /\ writer = None /\ maker[c].pc = "idle"
    /\ Rows(m) = {}
    /\ writer' = c
    /\ maker' = [maker EXCEPT ![c] = [pc |-> "write", of |-> m, body |-> b, files |-> {}]]
    /\ UNCHANGED <<row, disk, drawn, reader, pruner, crashes>>

\* write_bytes of the temporary file, under a new id ...
WriteFile(c, i) ==
    /\ maker[c].pc = "write" /\ Cardinality(maker[c].files) < Size
    /\ i \notin drawn
    /\ drawn' = drawn \cup {i}
    /\ disk' = [disk EXCEPT ![i] = "tmp"]
    /\ maker' = [maker EXCEPT ![c].pc = "rename", ![c].files = @ \cup {i}]
    /\ UNCHANGED <<row, writer, reader, pruner, crashes>>

\* ... its replace by the final one, and the row in the open transaction.
RenameFile(c) ==
    /\ maker[c].pc = "rename"
    /\ disk' = [i \in Ids |-> IF i \in maker[c].files THEN "whole" ELSE disk[i]]
    /\ maker' = [maker EXCEPT ![c].pc = "write"]
    /\ UNCHANGED <<row, drawn, writer, reader, pruner, crashes>>

\* create_many commits, and so does accept_chat_request with its message.
Commit(c) ==
    /\ maker[c].pc = "write" /\ Cardinality(maker[c].files) = Size
    /\ row' = [i \in Ids |->
                 IF i \in maker[c].files
                 THEN [state |-> "ready", of |-> maker[c].of, body |-> maker[c].body,
                       late |-> FALSE]
                 ELSE row[i]]
    /\ writer' = None
    /\ maker' = [maker EXCEPT ![c] = Idle]
    /\ UNCHANGED <<disk, drawn, reader, pruner, crashes>>

\* An error, also of the commit, rolls back first ...
Rollback(c) ==
    /\ maker[c].pc \in {"write", "rename"}
    /\ writer' = None
    /\ maker' = [maker EXCEPT ![c].pc = "discard"]
    /\ UNCHANGED <<row, disk, drawn, reader, pruner, crashes>>

\* ... and then, with no transaction, _discard_created_files.
Discard(c) ==
    /\ maker[c].pc = "discard"
    /\ disk' = [i \in Ids |-> IF i \in maker[c].files THEN "none" ELSE disk[i]]
    /\ maker' = [maker EXCEPT ![c] = Idle]
    /\ UNCHANGED <<row, drawn, writer, reader, pruner, crashes>>

-----------------------------------------------------------------------------
(* Reading and pruning.                                                    *)

\* expires_at passes.
TimePasses(i) ==
    /\ row[i].state = "ready" /\ ~row[i].late
    /\ row' = [row EXCEPT ![i].late = TRUE]
    /\ UNCHANGED <<disk, drawn, writer, maker, reader, pruner, crashes>>

\* ready_payload, its transaction.  A row past its time loses its file; the
\* exception then rolls the UPDATE back, so that the row stays ready.
ReadyPayload(i) ==
    /\ writer = None /\ reader = None
    /\ row[i].state = "ready"
    /\ IF row[i].late
       THEN disk' = [disk EXCEPT ![i] = "none"] /\ UNCHANGED reader
       ELSE reader' = i /\ UNCHANGED disk
    /\ UNCHANGED <<row, drawn, writer, maker, pruner, crashes>>

\* read_bytes after the transaction: the file may be gone by now, which is
\* reported as an integrity error.
ReadBody ==
    /\ reader # None
    /\ reader' = None
    /\ UNCHANGED <<row, disk, drawn, writer, maker, pruner, crashes>>

Overdue == {i \in Ids : row[i].state = "ready" /\ row[i].late}

\* The files without a row, temporary ones included.
Unreferenced == {i \in Ids : row[i].state = "none"}

\* A mutant: the files are collected before the transaction begins.
PruneUnlocked ==
    /\ pruner = {}
    /\ row' = [i \in Ids |-> IF i \in Overdue THEN [row[i] EXCEPT !.state = "expired"] ELSE row[i]]
    /\ disk' = [i \in Ids |-> IF i \in Unreferenced THEN "none" ELSE disk[i]]
    /\ pruner' = Overdue
    /\ UNCHANGED <<drawn, writer, maker, reader, crashes>>

\* prune_expired, its transaction: overdue rows expire, unreferenced files go.
PruneBegins ==
    /\ writer = None /\ pruner = {}
    /\ row' = [i \in Ids |-> IF i \in Overdue THEN [row[i] EXCEPT !.state = "expired"] ELSE row[i]]
    /\ disk' = [i \in Ids |-> IF i \in Unreferenced THEN "none" ELSE disk[i]]
    /\ pruner' = Overdue
    /\ UNCHANGED <<drawn, writer, maker, reader, crashes>>

\* The files of the rows that expired are removed after it.
PruneRemoves(i) ==
    /\ i \in pruner
    /\ disk' = [disk EXCEPT ![i] = "none"]
    /\ pruner' = pruner \ {i}
    /\ UNCHANGED <<row, drawn, writer, maker, reader, crashes>>

\* A hard exit: files and committed rows stay.
Crash ==
    /\ crashes < MaxCrashes
    /\ writer' = None
    /\ maker' = [c \in Creators |-> Idle]
    /\ reader' = None
    /\ pruner' = {}
    /\ crashes' = crashes + 1
    /\ UNCHANGED <<row, disk, drawn>>

Next ==
    \/ \E c \in Creators :
         \/ \E m \in Messages, b \in Bodies : Begin(c, m, b)
         \/ \E i \in Ids : WriteFile(c, i)
         \/ RenameFile(c) \/ Commit(c) \/ Rollback(c) \/ Discard(c)
    \/ \E i \in Ids : TimePasses(i) \/ ReadyPayload(i) \/ PruneRemoves(i)
    \/ ReadBody \/ PruneBegins \/ Crash

Spec == Init /\ [][Next]_vars

-----------------------------------------------------------------------------
TypeOK ==
    /\ row \in [Ids -> [state : {"none", "ready", "expired"}, of : Messages \cup {None},
                        body : Bodies \cup {None}, late : BOOLEAN]]
    /\ disk \in [Ids -> {"none", "tmp", "whole"}]
    /\ drawn \in SUBSET Ids
    /\ writer \in Creators \cup {None}
    /\ maker \in [Creators -> [pc : {"idle", "write", "rename", "discard"},
                               of : Messages \cup {None}, body : Bodies \cup {None},
                               files : SUBSET Ids]]
    /\ reader \in Ids \cup {None}
    /\ pruner \in SUBSET Ids
    /\ crashes \in Nat

\* A picture that is offered and not past its time is there in full, whatever
\* creators fail, die or clean up beside it and whenever maintenance runs.
ReadyHasFile ==
    \A i \in Ids : row[i].state = "ready" /\ ~row[i].late => disk[i] = "whole"

\* A message has the pictures of one call, all of them or none.
AllOrNone ==
    \A m \in Messages : \A i, j \in Rows(m) :
        row[i].body = row[j].body /\ Cardinality(Rows(m)) = Size

PicturesAreWhole == ReadyHasFile /\ AllOrNone
=============================================================================
