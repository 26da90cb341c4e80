---------------------------- MODULE AuthService ----------------------------
(***************************************************************************)
(* What the rest of the server counts on from authentication: a client     *)
(* that is handed over is given back once, with an answer to what was      *)
(* asked for it, and the authenticator of a mount is released when the     *)
(* configuration no longer has it and nobody waits for it.  Nothing is     *)
(* said of a queue, of threads or of reference counts; AuthQueue has them  *)
(* and implements this.                                                    *)
(***************************************************************************)
CONSTANT Client

VARIABLES
  at,          \* how far each client is
  asked,       \* what is being asked for it, "" for nothing
  configured,  \* the configuration has the authenticator
  live         \* it has not been released

avars == <<at, asked, configured, live>>

Init ==
  /\ at = [c \in Client |-> "new"]
  /\ asked = [c \in Client |-> ""]
  /\ configured = TRUE
  /\ live = TRUE

\* Who can be handed over, and for what.
Asks == [listener |-> "new", source |-> "new", remove |-> "listening"]

\* The answers there are.
Answers == [listener |-> {"listening", "gone"}, source |-> {"accepted", "gone"},
            remove |-> {"gone"}]

Ask(c, what) ==
  /\ live /\ configured
  /\ at[c] = Asks[what]
  /\ at' = [at EXCEPT ![c] = "waiting"]
  /\ asked' = [asked EXCEPT ![c] = what]
  /\ UNCHANGED <<configured, live>>

Answer(c) ==
  /\ live
  /\ at[c] = "waiting"
  /\ \E s \in Answers[asked[c]] : at' = [at EXCEPT ![c] = s]
  /\ asked' = [asked EXCEPT ![c] = ""]
  /\ UNCHANGED <<configured, live>>

\* A client that is not handed over: turned away, let in without being asked
\* for, let go of, or a source that starts and ends.
Passes(c) ==
  /\ \E step \in {<<"new", "gone">>, <<"new", "listening">>, <<"listening", "gone">>,
                  <<"accepted", "streaming">>, <<"streaming", "gone">>} :
       at[c] = step[1] /\ at' = [at EXCEPT ![c] = step[2]]
  /\ UNCHANGED <<asked, configured, live>>

Replace ==
  /\ configured
  /\ configured' = FALSE
  /\ UNCHANGED <<at, asked, live>>

Release ==
  /\ live /\ ~configured
  /\ \A c \in Client : at[c] # "waiting"
  /\ live' = FALSE
  /\ UNCHANGED <<at, asked, configured>>

Next ==
  \/ \E c \in Client : Answer(c) \/ Passes(c) \/ \E what \in DOMAIN Asks : Ask(c, what)
  \/ Replace
  \/ Release

Spec ==
  /\ Init /\ [][Next]_avars
  /\ \A c \in Client : WF_avars(Answer(c))
=============================================================================
