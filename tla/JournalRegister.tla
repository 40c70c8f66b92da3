-------------------------- MODULE JournalRegister ---------------------------
(***************************************************************************)
(* What the private canary journal promises its writers: a register of two *)
(* kinds of state whose content a writer may replace only while nothing    *)
(* was written since it last read (git_journal.py: "changed concurrently", *)
(* "concurrent revision conflict").  No update is lost, and no writer acts *)
(* on a state that another one has already replaced.                       *)
(***************************************************************************)
EXTENDS Integers

CONSTANTS Client, NoPayload

VARIABLES version,    \* how many writes the register has taken
          content,    \* what it holds of each kind
          seen        \* the version each client last read

registerVars == <<version, content, seen>>

RegisterKind == {"transition", "restart"}

RegisterInit ==
    /\ version = 0
    /\ content = [k \in RegisterKind |-> NoPayload]
    /\ seen = [c \in Client |-> 0]

Read(c) ==
    /\ seen' = [seen EXCEPT ![c] = version]
    /\ UNCHANGED <<version, content>>

Write(c) ==
    /\ seen[c] = version
    /\ version' = version + 1
    /\ \E k \in RegisterKind : \A other \in RegisterKind \ {k} : content'[other] = content[other]
    /\ DOMAIN content' = RegisterKind
    /\ UNCHANGED seen

RegisterNext == \E c \in Client : Read(c) \/ Write(c)

RegisterSpec == RegisterInit /\ [][RegisterNext]_registerVars

=============================================================================
