----------------------------- MODULE GitJournal -----------------------------
(***************************************************************************)
(* The private canary journal of pipeline/git_journal.py: numbered assets  *)
(* on a draft GitHub release whose body is the head, the number of the     *)
(* last committed asset and of the last one of each kind.  A write is a    *)
(* conversation of several requests, check, upload, move the head, look    *)
(* again, and a client may stop after any of them.                         *)
(*                                                                         *)
(* An asset that neither the head nor a write in progress names is never   *)
(* downloaded again, only its name still counts, so its payload is         *)
(* forgotten here.  Not modelled: encryption, authentication, sizes, and   *)
(* the creation of the release, which exists here from the start.          *)
(***************************************************************************)
EXTENDS Integers

CONSTANTS Client,      \* the processes that share one run's journal
          Payload,     \* what the journal's own specification lets them write
          NoPayload,   \* "no state of this kind yet"
          MaxAssets    \* _MAX_ASSETS

ASSUME MaxAssetsAssumption == MaxAssets \in Nat

VARIABLES names,       \* the revisions that have an asset
          stored,      \* the assets that can still be downloaded
          head,        \* the committed head
          expected,    \* the head under which each client last read
          request      \* how far each client's write has come

journalVars == <<names, stored, head, expected, request>>

Kind == {"transition", "restart"}
EmptyHead == [revision |-> 0, transition |-> 0, restart |-> 0]
NoRequest == [phase |-> "none"]

Latest(h, kind) == IF kind = "transition" THEN h.transition ELSE h.restart

Advance(h, kind) ==
    [revision   |-> h.revision + 1,
     transition |-> IF kind = "transition" THEN h.revision + 1 ELSE h.transition,
     restart    |-> IF kind = "restart" THEN h.revision + 1 ELSE h.restart]

\* _assets: the durable names are exactly those the head promises.
Agrees == names = 1 .. head.revision

\* What _load_with_head returns for a kind, and its check of the stored kind.
Durable(kind) ==
    IF Latest(head, kind) = 0 THEN NoPayload ELSE stored[Latest(head, kind)].payload

RightKind(kind) == Latest(head, kind) # 0 => stored[Latest(head, kind)].kind = kind

JournalInit ==
    /\ names = {}
    /\ stored = [r \in {} |-> NoPayload]
    /\ head = EmptyHead
    /\ expected = [c \in Client |-> EmptyHead]
    /\ request = [c \in Client |-> NoRequest]

-----------------------------------------------------------------------------

Readable(kind) == Agrees /\ RightKind(kind)

Load(c, kind) ==
    /\ request[c] = NoRequest
    /\ Readable(kind)
    /\ expected' = [expected EXCEPT ![c] = head]
    /\ UNCHANGED <<names, stored, head, request>>

MayPersistBlindly(c, kind, payload) ==
    /\ Readable(kind)
    /\ payload # Durable(kind)
    /\ head.revision < MaxAssets

\* The part of _persist before the upload, when there is something to write.
MayPersist(c, kind, payload) ==
    /\ Readable(kind)
    /\ head = expected[c]
    /\ payload # Durable(kind)
    /\ head.revision < MaxAssets

Check(c, kind, payload) ==
    /\ request[c] = NoRequest
    /\ MayPersist(c, kind, payload)
    /\ request' = [request EXCEPT ![c] =
                       [phase |-> "upload", kind |-> kind, payload |-> payload,
                        next |-> Advance(head, kind)]]
    /\ UNCHANGED <<names, stored, head, expected>>

Onward(r, phase) ==
    [phase |-> phase, kind |-> r.kind, payload |-> r.payload, next |-> r.next]

\* The name of a revision is taken once: a second upload of it is refused (422).
Upload(c) ==
    LET r == request[c] IN
    /\ r.phase = "upload"
    /\ r.next.revision \notin names
    /\ names' = names \cup {r.next.revision}
    /\ stored' = [n \in DOMAIN stored \cup {r.next.revision} |->
                     IF n = r.next.revision THEN [kind |-> r.kind, payload |-> r.payload]
                                            ELSE stored[n]]
    /\ request' = [request EXCEPT ![c] = Onward(r, "commit")]
    /\ UNCHANGED <<head, expected>>

\* The head is replaced without a condition.
Commit(c) ==
    LET r == request[c] IN
    /\ r.phase = "commit"
    /\ head' = r.next
    /\ stored' = [n \in DOMAIN stored \cap {r.next.transition, r.next.restart} |-> stored[n]]
    /\ request' = [request EXCEPT ![c] = Onward(r, "confirm")]
    /\ UNCHANGED <<names, expected>>

\* The head and the assets are read once more.
Confirmed(c) == head = request[c].next /\ Agrees

Confirm(c) ==
    /\ request[c].phase = "confirm"
    /\ Confirmed(c)
    /\ request' = [request EXCEPT ![c] = NoRequest]
    /\ UNCHANGED <<names, stored, head, expected>>

\* A request is refused or its answer is lost, or the process dies.
GiveUp(c) ==
    /\ request' = [request EXCEPT ![c] = NoRequest]
    /\ UNCHANGED <<names, stored, head, expected>>

JournalNext ==
    \E c \in Client :
        \/ \E kind \in Kind : Load(c, kind) \/ \E p \in Payload : Check(c, kind, p)
        \/ Upload(c)
        \/ Commit(c)
        \/ Confirm(c)
        \/ GiveUp(c)

JournalSpec == JournalInit /\ [][JournalNext]_journalVars

-----------------------------------------------------------------------------

Register == INSTANCE JournalRegister WITH
    version <- head.revision,
    content <- [k \in Kind |-> Durable(k)],
    seen    <- [c \in Client |-> expected[c].revision]

(***************************************************************************)
(* The conversation implements the register: a head moves only for a       *)
(* client that read the state it replaces (git_journal.py:590-684).        *)
(***************************************************************************)
ImplementsRegister == Register!RegisterSpec

=============================================================================
