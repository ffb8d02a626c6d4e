-------------------------- MODULE MCRuntimeSession --------------------------
(* Instances of RuntimeSession for TLC: up to three frames of every kind. *)
EXTENDS RuntimeSession

Frames ==
  {Request(m, g, "short") : m \in {"initialize", "run/start", "inspect"}, g \in BOOLEAN}
  \cup {Request("run/start", TRUE, "long"), Request("doctor", TRUE, "short"),
        Request("run/resume", TRUE, "short"), Goodbye}
  \cup {Other(k) : k \in {"notification", "bad header", "bad body", "bare value"}}

UpToThree == UNION {[1..n -> Frames] : n \in 1..3}

CliCommands ==
  {Request("run/start", TRUE, s) : s \in {"short", "long", "refused"}}
  \cup {Request(m, g, "short") : m \in {"run/start", "inspect", "doctor"}, g \in BOOLEAN}

=============================================================================
