-------------------------- MODULE GitJournalProofs --------------------------
(***************************************************************************)
(* The conversation of GitJournal implements the compare-and-set register, *)
(* for every number of clients, payloads and assets.                       *)
(*                                                                         *)
(* The argument: a revision's name is taken once, so between the upload of *)
(* an asset and the move of the head exactly one client owns the revision  *)
(* after the committed one, and what it read is the committed head.        *)
(***************************************************************************)
EXTENDS GitJournal, TLAPS

Head == [revision : Nat, transition : Nat, restart : Nat]

HeadInv ==
    /\ head \in Head
    /\ head.transition <= head.revision
    /\ head.restart <= head.revision

NamesInv == names = 1 .. head.revision \/ names = 1 .. head.revision + 1

ExpectedInv ==
    /\ expected \in [Client -> Head]
    /\ \A c \in Client :
          /\ expected[c].revision <= head.revision
          /\ expected[c].revision = head.revision => expected[c] = head

StoredInv ==
    \A n \in {head.transition, head.restart} : n # 0 => n \in DOMAIN stored

Writing(c) == request[c].phase \in {"upload", "commit"}
Owns(c) == request[c].phase = "commit"

RequestInv ==
    /\ DOMAIN request = Client
    /\ \A c \in Client :
          /\ Writing(c) => request[c].next = Advance(expected[c], request[c].kind)
          /\ Owns(c) => /\ request[c].next.revision = head.revision + 1
                        /\ request[c].next.revision \in names
                        /\ request[c].next.revision \in DOMAIN stored
    /\ \A c, d \in Client : Owns(c) /\ Owns(d) => c = d

\* The invariant the argument rests on.
JournalInv == HeadInv /\ NamesInv /\ ExpectedInv /\ StoredInv /\ RequestInv

\* A step of the journal whatever is written: a specification that composes
\* the journal chooses its own payloads.
AnyStep(c) ==
    \/ \E kind : Load(c, kind)
    \/ \E kind, p : Check(c, kind, p)
    \/ Upload(c)
    \/ Commit(c)
    \/ Confirm(c)
    \/ GiveUp(c)

-----------------------------------------------------------------------------

\* The next head of a kind, spelled out.
LEMMA AdvanceFields ==
    ASSUME NEW h \in Head, NEW kind
    PROVE  /\ Advance(h, kind) \in Head
           /\ Advance(h, kind).revision = h.revision + 1
           /\ Advance(h, kind).transition \in {h.transition, h.revision + 1}
           /\ Advance(h, kind).restart \in {h.restart, h.revision + 1}
           /\ kind # "transition" => Advance(h, kind).transition = h.transition
           /\ kind # "restart" => Advance(h, kind).restart = h.restart
BY DEF Head, Advance

LEMMA InitInv == JournalInit => JournalInv
<1> SUFFICES ASSUME JournalInit PROVE JournalInv
    OBVIOUS
<1> USE DEF JournalInit
<1>1. head \in Head /\ head.revision = 0 /\ head.transition = 0 /\ head.restart = 0
    BY DEF EmptyHead, Head
<1>2. HeadInv /\ StoredInv
    BY <1>1 DEF HeadInv, StoredInv
<1>3. NamesInv
    BY <1>1 DEF NamesInv
<1>4. ExpectedInv
    BY <1>1 DEF ExpectedInv
<1>5. RequestInv
    BY DEF RequestInv, NoRequest, Writing, Owns
<1> QED
    BY <1>2, <1>3, <1>4, <1>5 DEF JournalInv

\* What the owner of the next revision knows.
LEMMA OwnerKnowsHead ==
    ASSUME JournalInv, NEW c \in Client, Owns(c)
    PROVE  /\ expected[c] = head
           /\ request[c].next = Advance(head, request[c].kind)
           /\ names = 1 .. head.revision + 1
<1>1. request[c].next = Advance(expected[c], request[c].kind)
    BY DEF JournalInv, RequestInv, Writing, Owns
<1>2. expected[c] \in Head /\ head \in Head
    BY DEF JournalInv, ExpectedInv, HeadInv
<1>3. request[c].next.revision = expected[c].revision + 1
    BY <1>1, <1>2, AdvanceFields
<1>4. request[c].next.revision = head.revision + 1 /\ request[c].next.revision \in names
    BY DEF JournalInv, RequestInv
<1>5. expected[c].revision = head.revision
    BY <1>2, <1>3, <1>4 DEF Head
<1>6. expected[c] = head
    BY <1>5 DEF JournalInv, ExpectedInv
<1>7. names = 1 .. head.revision + 1
    BY <1>2, <1>4 DEF JournalInv, NamesInv, Head
<1> QED
    BY <1>1, <1>6, <1>7

\* A successful upload takes the revision after the committed one.
LEMMA UploadTakesNext ==
    ASSUME JournalInv, NEW c \in Client, Upload(c)
    PROVE  /\ names = 1 .. head.revision
           /\ names' = 1 .. head.revision + 1
           /\ request[c].next = Advance(head, request[c].kind)
           /\ request[c].next.revision = head.revision + 1
           /\ \A d \in Client : ~ Owns(d)
<1>1. request[c].next = Advance(expected[c], request[c].kind)
    BY DEF JournalInv, RequestInv, Writing, Upload
<1>2. expected[c] \in Head /\ head \in Head /\ expected[c].revision <= head.revision
    BY DEF JournalInv, ExpectedInv, HeadInv
<1>3. request[c].next.revision = expected[c].revision + 1
    BY <1>1, <1>2, AdvanceFields
<1>4. request[c].next.revision \notin names /\ names' = names \cup {request[c].next.revision}
    BY DEF Upload
<1>5. names = 1 .. head.revision /\ expected[c].revision = head.revision
    BY <1>2, <1>3, <1>4 DEF JournalInv, NamesInv, Head
<1>6. names' = 1 .. head.revision + 1
    BY <1>2, <1>3, <1>4, <1>5 DEF Head
<1>7. expected[c] = head
    BY <1>5 DEF JournalInv, ExpectedInv
<1>8. ASSUME NEW d \in Client, Owns(d) PROVE FALSE
    BY <1>2, <1>5, <1>8 DEF JournalInv, RequestInv, Head
<1> QED
    BY <1>1, <1>3, <1>5, <1>6, <1>7, <1>8

-----------------------------------------------------------------------------

LEMMA LoadInv ==
    ASSUME JournalInv, NEW c \in Client, NEW kind, Load(c, kind)
    PROVE  JournalInv'
<1> USE DEF Load
<1>1. HeadInv' /\ NamesInv' /\ StoredInv'
    BY DEF JournalInv, HeadInv, NamesInv, StoredInv
<1>2. ExpectedInv'
    <2>1. head \in Head /\ head' = head /\ head.revision <= head.revision
        BY DEF JournalInv, HeadInv, Head
    <2>2. ASSUME NEW d \in Client PROVE expected'[d] = IF d = c THEN head ELSE expected[d]
        BY DEF JournalInv, ExpectedInv
    <2>3. expected' \in [Client -> Head]
        BY <2>1 DEF JournalInv, ExpectedInv
    <2> QED
        BY <2>1, <2>2, <2>3 DEF JournalInv, ExpectedInv
<1>3. RequestInv'
    <2>1. ASSUME NEW d \in Client PROVE Writing(d) => expected'[d] = expected[d]
        BY DEF JournalInv, ExpectedInv, Writing, NoRequest
    <2> QED
        BY <2>1 DEF JournalInv, RequestInv, Writing, Owns
<1> QED
    BY <1>1, <1>2, <1>3 DEF JournalInv

LEMMA CheckInv ==
    ASSUME JournalInv, NEW c \in Client, NEW kind, NEW p, Check(c, kind, p)
    PROVE  JournalInv'
<1> USE DEF Check, MayPersist
<1>1. HeadInv' /\ NamesInv' /\ StoredInv' /\ ExpectedInv'
    BY DEF JournalInv, HeadInv, NamesInv, StoredInv, ExpectedInv
<1>2. request'[c] = [phase |-> "upload", kind |-> kind, payload |-> p,
                     next |-> Advance(expected[c], kind)]
    BY DEF JournalInv, RequestInv
<1>3. ASSUME NEW d \in Client, d # c PROVE request'[d] = request[d]
    BY <1>3 DEF JournalInv, RequestInv
<1>4. RequestInv'
    BY <1>2, <1>3 DEF JournalInv, RequestInv, Writing, Owns
<1> QED
    BY <1>1, <1>4 DEF JournalInv

LEMMA UploadInv ==
    ASSUME JournalInv, NEW c \in Client, Upload(c)
    PROVE  JournalInv'
<1> DEFINE r == request[c]
<1>1. /\ names = 1 .. head.revision
      /\ names' = 1 .. head.revision + 1
      /\ r.next = Advance(head, r.kind)
      /\ r.next.revision = head.revision + 1
      /\ \A d \in Client : ~ Owns(d)
    BY UploadTakesNext
<1>2. HeadInv' /\ ExpectedInv'
    BY DEF JournalInv, HeadInv, ExpectedInv, Upload
<1>3. NamesInv'
    BY <1>1 DEF NamesInv, Upload
<1>4. DOMAIN stored' = DOMAIN stored \cup {r.next.revision}
    BY DEF Upload
<1>5. StoredInv'
    BY <1>4 DEF JournalInv, StoredInv, Upload
<1>6. request' = [request EXCEPT ![c] = Onward(r, "commit")]
    BY DEF Upload
<1>7. /\ request'[c].phase = "commit"
      /\ request'[c].next = r.next
      /\ request'[c].kind = r.kind
    BY <1>6 DEF JournalInv, RequestInv, Onward
<1>8. ASSUME NEW d \in Client, d # c PROVE request'[d] = request[d]
    BY <1>6, <1>8 DEF JournalInv, RequestInv
<1>9. RequestInv'
    <2>1. DOMAIN request' = Client
        BY <1>6 DEF JournalInv, RequestInv
    <2>2. ASSUME NEW d \in Client, Writing(d)'
          PROVE  request'[d].next = Advance(expected'[d], request'[d].kind)
        BY <2>2, <1>7, <1>8 DEF JournalInv, RequestInv, Writing, Upload
    <2>3. ASSUME NEW d \in Client, Owns(d)' PROVE d = c
        BY <2>3, <1>1, <1>8 DEF Owns
    <2>4. head.revision + 1 \in names' /\ head' = head
        BY <1>1 DEF JournalInv, HeadInv, Head, Upload
    <2> QED
        BY <2>1, <2>2, <2>3, <2>4, <1>1, <1>4, <1>7 DEF RequestInv
<1> QED
    BY <1>2, <1>3, <1>5, <1>9 DEF JournalInv

LEMMA CommitInv ==
    ASSUME JournalInv, NEW c \in Client, Commit(c)
    PROVE  JournalInv'
<1> DEFINE r == request[c]
<1>1. Owns(c) /\ head' = r.next
    BY DEF Commit, Owns
<1>2. /\ expected[c] = head
      /\ r.next = Advance(head, r.kind)
      /\ names = 1 .. head.revision + 1
    BY <1>1, OwnerKnowsHead
<1>3. head \in Head /\ head.transition <= head.revision /\ head.restart <= head.revision
    BY DEF JournalInv, HeadInv
<1>4. /\ head' \in Head
      /\ head'.revision = head.revision + 1
      /\ head'.transition \in {head.transition, head.revision + 1}
      /\ head'.restart \in {head.restart, head.revision + 1}
    BY <1>1, <1>2, <1>3, AdvanceFields
<1>5. HeadInv'
    BY <1>3, <1>4 DEF HeadInv, Head
<1>6. NamesInv'
    BY <1>2, <1>4 DEF NamesInv, Commit
<1>7. ExpectedInv'
    <2>1. expected' = expected
        BY DEF Commit
    <2>2. ASSUME NEW d \in Client PROVE expected[d].revision < head'.revision
        BY <1>3, <1>4 DEF JournalInv, ExpectedInv, Head
    <2> QED
        BY <1>4, <2>1, <2>2 DEF JournalInv, ExpectedInv, Head
<1>8. StoredInv'
    <2>1. DOMAIN stored' = DOMAIN stored \cap {head'.transition, head'.restart}
        BY <1>1 DEF Commit
    <2>2. head.revision + 1 \in DOMAIN stored
        BY <1>1 DEF JournalInv, RequestInv
    <2> QED
        BY <1>4, <2>1, <2>2 DEF JournalInv, StoredInv
<1>9. RequestInv'
    <2>1. request' = [request EXCEPT ![c] = Onward(r, "confirm")] /\ expected' = expected
        BY DEF Commit
    <2>2. request'[c].phase = "confirm"
        BY <2>1 DEF JournalInv, RequestInv, Onward
    <2>3. ASSUME NEW d \in Client, d # c PROVE request'[d] = request[d] /\ ~ Owns(d)
        BY <1>1, <2>1, <2>3 DEF JournalInv, RequestInv
    <2> QED
        BY <2>1, <2>2, <2>3 DEF JournalInv, RequestInv, Writing, Owns
<1> QED
    BY <1>5, <1>6, <1>7, <1>8, <1>9 DEF JournalInv

LEMMA EndInv ==
    ASSUME JournalInv, NEW c \in Client, Confirm(c) \/ GiveUp(c)
    PROVE  JournalInv'
<1>1. /\ request' = [request EXCEPT ![c] = NoRequest]
      /\ UNCHANGED <<names, stored, head, expected>>
    BY DEF Confirm, GiveUp
<1>2. HeadInv' /\ NamesInv' /\ StoredInv' /\ ExpectedInv'
    BY <1>1 DEF JournalInv, HeadInv, NamesInv, StoredInv, ExpectedInv
<1>3. RequestInv'
    <2>1. request'[c].phase = "none"
        BY <1>1 DEF JournalInv, RequestInv, NoRequest
    <2>2. ASSUME NEW d \in Client, d # c PROVE request'[d] = request[d]
        BY <1>1, <2>2 DEF JournalInv, RequestInv
    <2> QED
        BY <1>1, <2>1, <2>2 DEF JournalInv, RequestInv, Writing, Owns
<1> QED
    BY <1>2, <1>3 DEF JournalInv

LEMMA StepInv ==
    ASSUME JournalInv, NEW c \in Client, AnyStep(c)
    PROVE  JournalInv'
BY LoadInv, CheckInv, UploadInv, CommitInv, EndInv DEF AnyStep

LEMMA StutterInv ==
    ASSUME JournalInv, UNCHANGED journalVars
    PROVE  JournalInv'
BY DEF journalVars, JournalInv, HeadInv, NamesInv, ExpectedInv, StoredInv, RequestInv,
       Writing, Owns

-----------------------------------------------------------------------------

\* Uploading an asset leaves what the head makes durable alone.
LEMMA UploadKeepsContent ==
    ASSUME JournalInv, NEW c \in Client, Upload(c), NEW kind
    PROVE  Durable(kind)' = Durable(kind)
<1>1. request[c].next.revision = head.revision + 1
    BY UploadTakesNext
<1>2. head' = head /\ Latest(head, kind) \in {head.transition, head.restart}
    BY DEF Upload, Latest
<1>3. Latest(head, kind) # request[c].next.revision
    BY <1>1, <1>2 DEF JournalInv, HeadInv, Head
<1>4. CASE Latest(head, kind) = 0
    BY <1>2, <1>4 DEF Durable
<1>5. CASE Latest(head, kind) # 0
    <2>1. Latest(head, kind) \in DOMAIN stored
        BY <1>2, <1>5 DEF JournalInv, StoredInv
    <2>2. stored'[Latest(head, kind)] = stored[Latest(head, kind)]
        BY <1>3, <2>1 DEF Upload
    <2> QED
        BY <1>2, <2>2 DEF Durable
<1> QED
    BY <1>4, <1>5

\* Moving the head replaces what is durable of one kind at most.
LEMMA CommitKeepsOther ==
    ASSUME JournalInv, NEW c \in Client, Commit(c),
           NEW kind \in Kind, kind # request[c].kind
    PROVE  Durable(kind)' = Durable(kind)
<1>1. Owns(c) /\ head' = request[c].next
    BY DEF Commit, Owns
<1>2. request[c].next = Advance(head, request[c].kind)
    BY <1>1, OwnerKnowsHead
<1>3. head \in Head
    BY DEF JournalInv, HeadInv
<1>4. Latest(head', kind) = Latest(head, kind)
    BY <1>1, <1>2, <1>3, AdvanceFields DEF Latest, Kind
<1>5. CASE Latest(head, kind) = 0
    BY <1>4, <1>5 DEF Durable
<1>6. CASE Latest(head, kind) # 0
    <2>1. Latest(head, kind) \in DOMAIN stored
        BY <1>6 DEF JournalInv, StoredInv, Latest
    <2>2. Latest(head, kind) \in {head'.transition, head'.restart}
        BY <1>4 DEF Latest
    <2>3. stored'[Latest(head, kind)] = stored[Latest(head, kind)]
        BY <1>1, <2>1, <2>2 DEF Commit
    <2> QED
        BY <1>4, <2>3 DEF Durable
<1> QED
    BY <1>5, <1>6

\* Every step of the journal is a read, a write or nothing to the register.
LEMMA StepRefines ==
    ASSUME JournalInv, NEW c \in Client, AnyStep(c)
    PROVE  [Register!RegisterNext]_(Register!registerVars)
<1> USE DEF Register!registerVars
<1>1. CASE \E kind : Load(c, kind)
    <2>1. /\ expected' = [expected EXCEPT ![c] = head]
          /\ UNCHANGED <<stored, head>>
        BY <1>1 DEF Load
    <2>2. UNCHANGED <<head.revision, [k \in Kind |-> Durable(k)]>>
        BY <2>1 DEF Durable
    <2>3. [d \in Client |-> expected[d].revision]' =
          [[d \in Client |-> expected[d].revision] EXCEPT ![c] = head.revision]
        BY <2>1 DEF JournalInv, ExpectedInv
    <2>4. Register!Read(c)
        BY <2>2, <2>3 DEF Register!Read
    <2> QED
        BY <2>4 DEF Register!RegisterNext
<1>2. CASE Upload(c)
    <2>1. head' = head /\ expected' = expected
        BY <1>2 DEF Upload
    <2>2. [k \in Kind |-> Durable(k)]' = [k \in Kind |-> Durable(k)]
        BY <1>2, UploadKeepsContent
    <2> QED
        BY <2>1, <2>2
<1>3. CASE Commit(c)
    <2>1. Owns(c) /\ head' = request[c].next /\ expected' = expected
        BY <1>3 DEF Commit, Owns
    <2>2. expected[c] = head /\ head'.revision = head.revision + 1
        BY <2>1, OwnerKnowsHead, AdvanceFields DEF JournalInv, HeadInv
    <2>3. \A kind \in Kind \ {request[c].kind} : Durable(kind)' = Durable(kind)
        BY <1>3, CommitKeepsOther
    <2>4. PICK k \in Kind : \A other \in Kind \ {k} : Durable(other)' = Durable(other)
        BY <2>3 DEF Kind
    <2>5. Register!Write(c)
        BY <2>1, <2>2, <2>4 DEF Register!Write, Register!RegisterKind, Kind
    <2> QED
        BY <2>5 DEF Register!RegisterNext
<1>4. CASE Confirm(c) \/ GiveUp(c) \/ \E kind, p : Check(c, kind, p)
    <2>1. UNCHANGED <<stored, head, expected>>
        BY <1>4 DEF Confirm, GiveUp, Check
    <2> QED
        BY <2>1 DEF Durable
<1> QED
    BY <1>1, <1>2, <1>3, <1>4 DEF AnyStep

LEMMA StutterRefines ==
    ASSUME UNCHANGED journalVars
    PROVE  UNCHANGED Register!registerVars
BY DEF journalVars, Register!registerVars, Durable

LEMMA InitRefines == JournalInit => Register!RegisterInit
BY DEF JournalInit, EmptyHead, Durable, Latest, Kind, Register!RegisterInit, Register!RegisterKind

-----------------------------------------------------------------------------

(***************************************************************************)
(* The conversation of check, upload, move and confirm, interrupted        *)
(* anywhere and by any number of clients, is a compare-and-set register    *)
(* (git_journal.py:590-684).                                               *)
(***************************************************************************)
THEOREM JournalImplementsRegister == JournalSpec => ImplementsRegister
<1>1. JournalInv /\ [JournalNext]_journalVars => JournalInv'
    BY StepInv, StutterInv DEF JournalNext, AnyStep
<1>2. JournalInv /\ [JournalNext]_journalVars => [Register!RegisterNext]_(Register!registerVars)
    BY StepRefines, StutterRefines DEF JournalNext, AnyStep
<1> QED
    BY <1>1, <1>2, InitInv, InitRefines, PTL
    DEF JournalSpec, ImplementsRegister, Register!RegisterSpec

-----------------------------------------------------------------------------
(***************************************************************************)
(* What becomes durable: the payload of the request that moves the head.   *)
(* A specification that composes the journal reasons from these lemmas.    *)
(***************************************************************************)

\* The head names assets of the right kind, and the asset of the client that
\* may move the head holds what its request says.
ContentInv ==
    /\ head.transition # 0 => stored[head.transition].kind = "transition"
    /\ head.restart # 0 => stored[head.restart].kind = "restart"
    /\ \A c \in Client : Owns(c) =>
          stored[request[c].next.revision] =
              [kind |-> request[c].kind, payload |-> request[c].payload]

LEMMA InitContent == JournalInit => ContentInv
BY DEF JournalInit, ContentInv, EmptyHead, NoRequest, Owns

LEMMA UploadContent ==
    ASSUME JournalInv, ContentInv, NEW c \in Client, Upload(c)
    PROVE  ContentInv'
<1> DEFINE n == request[c].next.revision
           asset == [kind |-> request[c].kind, payload |-> request[c].payload]
<1>1. n = head.revision + 1 /\ \A d \in Client : ~ Owns(d)
    BY UploadTakesNext
<1>2. head' = head /\ head \in Head /\ n # head.transition /\ n # head.restart
    BY <1>1 DEF Upload, JournalInv, HeadInv, Head
<1>3. /\ \A k \in DOMAIN stored : k # n => stored'[k] = stored[k]
      /\ stored'[n] = asset
    BY DEF Upload
<1>4. \A k \in {head.transition, head.restart} : k # 0 => stored'[k] = stored[k]
    BY <1>2, <1>3 DEF JournalInv, StoredInv
<1>5. ASSUME NEW d \in Client, Owns(d)'
      PROVE  stored'[request'[d].next.revision]
                 = [kind |-> request'[d].kind, payload |-> request'[d].payload]
    <2>1. request' = [request EXCEPT ![c] = Onward(request[c], "commit")]
        BY DEF Upload
    <2>2. DOMAIN request = Client
        BY DEF JournalInv, RequestInv
    <2>3. d = c
        BY <1>1, <1>5, <2>1, <2>2 DEF Owns
    <2>4. request'[c] = Onward(request[c], "commit")
        BY <2>1, <2>2
    <2>5. /\ request'[c].next = request[c].next /\ request'[c].kind = request[c].kind
          /\ request'[c].payload = request[c].payload
        BY <2>4 DEF Onward
    <2> QED
        BY <1>3, <2>3, <2>5
<1> QED
    BY <1>2, <1>4, <1>5 DEF ContentInv

LEMMA CommitContent ==
    ASSUME JournalInv, ContentInv, NEW c \in Client, Commit(c)
    PROVE  ContentInv'
<1> DEFINE h == request[c].next
           kind == request[c].kind
<1>1. Owns(c) /\ head' = h /\ head \in Head
    BY DEF Commit, Owns, JournalInv, HeadInv
<1>2. h = Advance(head, kind)
    BY <1>1, OwnerKnowsHead
<1>3. /\ h.revision = head.revision + 1
      /\ h.transition = IF kind = "transition" THEN h.revision ELSE head.transition
      /\ h.restart = IF kind = "restart" THEN h.revision ELSE head.restart
    BY <1>2 DEF Advance
<1>4. /\ h.revision \in DOMAIN stored
      /\ stored[h.revision] = [kind |-> kind, payload |-> request[c].payload]
    BY <1>1 DEF JournalInv, RequestInv, ContentInv
<1>5. \A n \in DOMAIN stored \cap {h.transition, h.restart} : stored'[n] = stored[n]
    BY DEF Commit
<1>6. \A n \in {head.transition, head.restart} : n # 0 => n \in DOMAIN stored
    BY DEF JournalInv, StoredInv
<1>7. h.transition # 0 => stored'[h.transition].kind = "transition"
    BY <1>3, <1>4, <1>5, <1>6 DEF ContentInv
<1>8. h.restart # 0 => stored'[h.restart].kind = "restart"
    BY <1>3, <1>4, <1>5, <1>6 DEF ContentInv
<1>9. ASSUME NEW d \in Client PROVE ~ Owns(d)'
    <2>1. request' = [request EXCEPT ![c] = Onward(request[c], "confirm")]
          /\ DOMAIN request = Client
        BY DEF Commit, JournalInv, RequestInv
    <2>2. CASE d = c
        BY <2>1, <2>2 DEF Owns, Onward
    <2>3. CASE d # c
        BY <1>1, <2>1, <2>3 DEF Owns, JournalInv, RequestInv
    <2> QED BY <2>2, <2>3
<1> QED
    BY <1>1, <1>7, <1>8, <1>9 DEF ContentInv

LEMMA StepContent ==
    ASSUME JournalInv, ContentInv, NEW c \in Client, AnyStep(c)
    PROVE  ContentInv'
<1>0. DOMAIN request = Client
    BY DEF JournalInv, RequestInv
<1>1. ASSUME UNCHANGED <<stored, head>>, \A d \in Client : Owns(d)' => request'[d] = request[d]
      PROVE  ContentInv'
    BY <1>1 DEF ContentInv, Owns
<1>2. ASSUME NEW kind, Load(c, kind) PROVE ContentInv'
    BY <1>1, <1>2 DEF Load
<1>3. ASSUME NEW kind, NEW p, Check(c, kind, p) PROVE ContentInv'
    BY <1>0, <1>1, <1>3 DEF Check, Owns
<1>4. CASE Confirm(c) \/ GiveUp(c)
    BY <1>0, <1>1, <1>4 DEF Confirm, GiveUp, Owns, NoRequest
<1> QED
    BY <1>2, <1>3, <1>4, UploadContent, CommitContent DEF AnyStep

\* The head moved: its kind's payload is durable, the other kind's still is,
\* and no client knows the new head yet.
LEMMA CommitEffect ==
    ASSUME JournalInv, ContentInv, NEW c \in Client, Commit(c),
           NEW kind \in Kind, request[c].kind = kind
    PROVE  /\ expected[c] = head
           /\ Durable(kind)' = request[c].payload
           /\ \A other \in Kind : other # kind => Durable(other)' = Durable(other)
           /\ \A d \in Client : expected'[d] # head'
<1> DEFINE h == request[c].next
<1>1. Owns(c) /\ head' = h /\ head \in Head
    BY DEF Commit, Owns, JournalInv, HeadInv
<1>2. h = Advance(head, kind) /\ expected[c] = head
    BY <1>1, OwnerKnowsHead
<1>3. h.revision = head.revision + 1 /\ Latest(h, kind) = h.revision
    BY <1>2 DEF Advance, Latest, Kind
<1>4. /\ h.revision \in DOMAIN stored
      /\ stored[h.revision] = [kind |-> kind, payload |-> request[c].payload]
    BY <1>1 DEF JournalInv, RequestInv, ContentInv
<1>5. h.revision \in {h.transition, h.restart}
    BY <1>3 DEF Latest
<1>6. stored'[h.revision] = stored[h.revision] /\ h.revision # 0
    BY <1>1, <1>3, <1>4, <1>5 DEF Commit, Head
<1>7. Durable(kind)' = request[c].payload
    BY <1>1, <1>3, <1>4, <1>6 DEF Durable
<1>8. \A d \in Client : expected'[d] # head'
    BY <1>1, <1>3 DEF Commit, JournalInv, ExpectedInv, Head
<1> QED
    BY <1>2, <1>7, <1>8, CommitKeepsOther

\* No other step changes what is durable.
LEMMA OtherEffect ==
    ASSUME JournalInv, NEW c \in Client, AnyStep(c), ~ Commit(c)
    PROVE  head' = head /\ \A kind : Durable(kind)' = Durable(kind)
<1>1. ASSUME UNCHANGED <<stored, head>>
      PROVE  head' = head /\ \A kind : Durable(kind)' = Durable(kind)
    BY <1>1 DEF Durable
<1>2. CASE Upload(c)
    BY <1>2, UploadKeepsContent DEF Upload
<1> QED
    BY <1>1, <1>2 DEF AnyStep, Load, Check, Confirm, GiveUp

\* A client's step leaves the conversations of the others alone.
LEMMA OtherConversations ==
    ASSUME NEW c \in Client, AnyStep(c), NEW d \in Client, d # c,
           DOMAIN request = Client, DOMAIN expected = Client
    PROVE  request'[d] = request[d] /\ expected'[d] = expected[d]
BY DEF AnyStep, Load, Check, Upload, Commit, Confirm, GiveUp

=============================================================================
