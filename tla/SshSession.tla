----------------------------- MODULE SshSession -----------------------------
(***************************************************************************)
(* pkg/ssh: NewHelper dials a connection and opens a session and an SFTP   *)
(* client on it; Run uses the one session, Copy and CopyFrom the SFTP      *)
(* client.  A program makes one helper after another.                      *)
(***************************************************************************)
EXTENDS Naturals, FiniteSets

CONSTANTS
    Helpers,    \* helpers the program may make
    Size,       \* how many blocks a file has
    MaxUses,    \* bound: operations on helpers
    MaxBreaks   \* bound: requests that fail

VARIABLES
    conn,       \* connections open at the remote host, one per helper
    step,       \* each helper: "none", "dial", "session", "sftp", "ready",
                \* "copy", "flush", "closed", or "dropped" when NewHelper failed
    session,    \* its session: "none", "fresh", "used", "closed"
    ran,        \* commands that ran on the remote host for it
    runs,       \* calls of Run that returned nil
    file,       \* blocks of the destination file; a copy truncates it first
    done,       \* outcome of the last copy: "none", "nil", "error"
    cut,        \* history: helpers whose last copy could not close its destination
    uses, breaks

vars == <<conn, step, session, ran, runs, file, done, cut, uses, breaks>>

Init ==
    /\ conn = {}
    /\ step = [h \in Helpers |-> "none"]
    /\ session = [h \in Helpers |-> "none"]
    /\ ran = [h \in Helpers |-> 0]
    /\ runs = [h \in Helpers |-> 0]
    /\ file = [h \in Helpers |-> 0]
    /\ done = [h \in Helpers |-> "none"]
    /\ cut = {}
    /\ uses = 0
    /\ breaks = 0

-----------------------------------------------------------------------------

Break == breaks < MaxBreaks /\ breaks' = breaks + 1

Goto(h, s) == step' = [step EXCEPT ![h] = s]

Ended(h, r) == done' = [done EXCEPT ![h] = r]

NewHelper(h) ==
    /\ step[h] = "none"
    /\ Goto(h, "dial")
    /\ UNCHANGED <<conn, session, ran, runs, file, done, cut, uses, breaks>>

\* SetClients, request by request.  An error ends it, and NewHelper returns no
\* helper: nothing closes the connection that is open by then.
SetClients(h) ==
    /\ \/ /\ step[h] = "dial"
          /\ conn' = conn \union {h}
          /\ Goto(h, "session")
          /\ UNCHANGED <<session, breaks>>
       \/ /\ step[h] = "session"
          /\ session' = [session EXCEPT ![h] = "fresh"]
          /\ Goto(h, "sftp")
          /\ UNCHANGED <<conn, breaks>>
       \/ step[h] = "sftp" /\ Goto(h, "ready") /\ UNCHANGED <<conn, session, breaks>>
       \/ /\ step[h] \in {"dial", "session", "sftp"}
          /\ Break
          /\ Goto(h, "dropped")
          /\ UNCHANGED <<conn, session>>
    /\ UNCHANGED <<ran, runs, file, done, cut, uses>>

Use(h) == step[h] = "ready" /\ uses < MaxUses /\ uses' = uses + 1

\* Run: a session of golang.org/x/crypto/ssh runs one command, whatever comes
\* of it, and refuses the next.
Run(h) ==
    /\ Use(h)
    /\ \/ /\ session[h] = "fresh"
          /\ session' = [session EXCEPT ![h] = "used"]
          /\ \/ /\ ran' = [ran EXCEPT ![h] = @ + 1]
                /\ runs' = [runs EXCEPT ![h] = @ + 1]
                /\ UNCHANGED breaks
             \/ /\ Break
                /\ ran' \in {ran, [ran EXCEPT ![h] = @ + 1]}
                /\ UNCHANGED runs
       \/ session[h] # "fresh" /\ UNCHANGED <<session, ran, runs, breaks>>
    /\ UNCHANGED <<conn, step, file, done, cut>>

\* Copy and CopyFrom: the source is opened and the destination created, empty;
\* if either fails, nothing is copied.
OpenFiles(h) ==
    /\ Use(h)
    /\ \/ /\ Goto(h, "copy")
          /\ file' = [file EXCEPT ![h] = 0]
          /\ Ended(h, "none")
          /\ cut' = cut \ {h}
          /\ UNCHANGED breaks
       \/ Break /\ Ended(h, "error") /\ UNCHANGED <<step, file, cut>>
    /\ UNCHANGED <<conn, session, ran, runs>>

\* Block by block.
WriteBlock(h) ==
    /\ file[h] < Size
    /\ file' = [file EXCEPT ![h] = @ + 1]
    /\ UNCHANGED <<step, done, breaks>>

\* Faulty variant: the error of io.Copy is only logged.
IoCopyUnchecked(h) ==
    /\ step[h] = "copy"
    /\ \/ WriteBlock(h)
       \/ /\ (file[h] = Size /\ UNCHANGED breaks) \/ Break
          /\ Goto(h, "flush")
          /\ Ended(h, "nil")
          /\ UNCHANGED file
    /\ UNCHANGED <<conn, session, ran, runs, cut, uses>>

\* io.Copy: an error leaves what has been written.
IoCopy(h) ==
    /\ step[h] = "copy"
    /\ \/ WriteBlock(h)
       \/ file[h] = Size /\ Goto(h, "flush") /\ Ended(h, "nil") /\ UNCHANGED <<file, breaks>>
       \/ Break /\ Goto(h, "flush") /\ Ended(h, "error") /\ UNCHANGED file
    /\ UNCHANGED <<conn, session, ran, runs, cut, uses>>

\* The deferred Close of the destination: its error is ignored, and blocks may be
\* lost with it.
CloseFiles(h) ==
    /\ step[h] = "flush"
    /\ Goto(h, "ready")
    /\ \/ UNCHANGED <<file, cut, breaks>>
       \/ /\ Break
          /\ \E n \in 0..file[h] : file' = [file EXCEPT ![h] = n]
          /\ cut' = cut \union {h}
    /\ UNCHANGED <<conn, session, ran, runs, done, uses>>

Copy(h) == OpenFiles(h) \/ IoCopy(h) \/ CloseFiles(h)

Close(h) ==
    /\ step[h] = "ready"
    /\ session' = [session EXCEPT ![h] = "closed"]
    /\ conn' = conn \ {h}
    /\ Goto(h, "closed")
    /\ UNCHANGED <<ran, runs, file, done, cut, uses, breaks>>

Next == \E h \in Helpers :
    NewHelper(h) \/ SetClients(h) \/ Run(h) \/ Copy(h) \/ Close(h)

Spec == Init /\ [][Next]_vars

-----------------------------------------------------------------------------

\* Every helper is at one of the steps, and no file is longer than its source.
TypeOK ==
    /\ conn \subseteq Helpers /\ cut \subseteq Helpers
    /\ step \in [Helpers -> {"none", "dial", "session", "sftp", "ready", "copy", "flush",
                             "closed", "dropped"}]
    /\ session \in [Helpers -> {"none", "fresh", "used", "closed"}]
    /\ file \in [Helpers -> 0..Size]
    /\ done \in [Helpers -> {"none", "nil", "error"}]
    /\ ran \in [Helpers -> Nat] /\ runs \in [Helpers -> Nat]

\* A helper in use has its connection, and one that is closed has none; a
\* connection that nobody can close any more belongs to a NewHelper that failed
\* after it had dialled.  A nil error of Copy and CopyFrom means that the whole
\* file is there, unless the destination could not be closed, which nobody is told;
\* one of Run means that the command ran; and a helper runs one command in its
\* life: every Run after the first is an error and does nothing.
HelperKeepsItsWord ==
    \A h \in Helpers :
        /\ h \in conn => step[h] \notin {"none", "dial", "closed"}
        /\ step[h] \in {"ready", "copy", "flush"} => h \in conn
        /\ step[h] = "dropped" /\ session[h] # "none" => h \in conn
        /\ done[h] = "nil" => file[h] = Size \/ h \in cut
        /\ runs[h] <= ran[h] /\ ran[h] <= 1
-----------------------------------------------------------------------------

\* The session is opened after the connection and runs a command at most; a copy
\* under way has no outcome yet.
SessionInv ==
    \A h \in Helpers :
        /\ step[h] \in {"session", "sftp"} => h \in conn
        /\ step[h] \in {"none", "dial", "session"} => session[h] = "none"
        /\ session[h] \in {"none", "fresh"} => ran[h] = 0
        /\ step[h] = "copy" => done[h] = "none"
=============================================================================
