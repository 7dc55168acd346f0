--------------------------- MODULE EngineProtocol ---------------------------
(***************************************************************************)
(* What cn-engine promises the process that drives it over stdin and       *)
(* stdout (tools/engine/README.md, "Message Types" and "Design Notes"):    *)
(* one command at a time, each answered by exactly one terminal message    *)
(* of a type that fits the command, progress only for the command being    *)
(* served and before its answer, no command accepted after quit.  The one  *)
(* way out of serving a command without an answer is that the process      *)
(* dies.                                                                   *)
(***************************************************************************)
EXTENDS Naturals

CONSTANT Null

VARIABLES
  current,  \* the command last accepted, or Null
  reply,    \* its terminal message, "none" while it is being served
  phase,    \* the phase of its last progress message
  life      \* "up", "stopped" (orderly exit) or "dead"

vars == <<current, reply, phase, life>>

Commands == {"ping", "status", "load", "unload", "generate", "upscale",
             "quit", "invalid", "malformed"}
Replies == {"ok", "result", "error"}
Streaming == {"generate", "upscale"}

\* The order in which the phases of a command are reported.
Rank == [none |-> 0, conditioning |-> 1, encoding |-> 2, sampling |-> 3,
         saving |-> 4, upscaling |-> 5]
Phases == DOMAIN Rank

RepliesTo(c) ==
  CASE c \in {"ping", "status", "unload", "quit"} -> {"ok"}
    [] c = "load"                                 -> {"ok", "error"}
    [] c \in Streaming                            -> {"result", "error"}
    [] OTHER                                      -> {"error"}

TypeOK ==
  /\ current \in Commands \cup {Null}
  /\ reply \in Replies \cup {"none"}
  /\ phase \in Phases
  /\ life \in {"up", "stopped", "dead"}

Waiting == life = "up" /\ (current = Null \/ reply # "none")
Serving == life = "up" /\ current # Null /\ reply = "none"

Init ==
  /\ current = Null
  /\ reply = "none"
  /\ phase = "none"
  /\ life = "up"

Accept(c) ==
  /\ Waiting /\ current # "quit"
  /\ current' = c
  /\ reply' = "none"
  /\ phase' = "none"
  /\ UNCHANGED life

MayFollow(ph) == current \in Streaming /\ Rank[ph] >= Rank[phase]

Report(ph) ==
  /\ Serving /\ MayFollow(ph)
  /\ phase' = ph
  /\ UNCHANGED <<current, reply, life>>

\* The answer, perhaps with a last progress message just before it.
Answer(r) ==
  /\ Serving
  /\ r \in RepliesTo(current)
  /\ reply' = r
  /\ phase' = phase \/ \E ph \in Phases : MayFollow(ph) /\ phase' = ph
  /\ UNCHANGED <<current, life>>

\* Orderly exit, after quit or at the end of stdin.
Stop ==
  /\ Waiting
  /\ life' = "stopped"
  /\ UNCHANGED <<current, reply, phase>>

\* An uncaught exception or an assertion ends the process.
Die ==
  /\ Serving
  /\ life' = "dead"
  /\ UNCHANGED <<current, reply, phase>>

Next ==
  \/ \E c \in Commands : Accept(c)
  \/ \E ph \in Phases : Report(ph)
  \/ \E r \in Replies : Answer(r)
  \/ Stop
  \/ Die

Spec == Init /\ [][Next]_vars
=============================================================================
