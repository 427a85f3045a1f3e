----------------------------- MODULE MCFrameRun -----------------------------
(***************************************************************************)
(* Layouts of systems, programs and barrier tickets for FrameRun.          *)
(***************************************************************************)
EXTENDS FrameRun

Ticket1(b, k) == <<[barrier |-> b, order |-> k]>>

\* Two barriers over three programs.  "make" owns the first ticket of both and
\* takes "data" before "log"; "use" is the second of "data"; "dump" the third
\* of "data" and the second of "log".  "tick" and "tock" have no ticket and share
\* their programs with "use" and "dump": they may be sorted before or after
\* them, and may skip a frame; "tick" may be disabled.  "pos" is shared: "tick" and
\* "tock" write it, "make" reads it, and "dump" joins it with "vel", which is not
\* shared: "use" writes it, and "data" is all that keeps "dump" away.
TwoBarriers == {"data", "log"}
ChainSystems == {"make", "use", "dump", "tick", "tock"}
ChainProgramOf == [s \in ChainSystems |->
  CASE s = "make" -> 0 [] s \in {"dump", "tock"} -> 2 [] OTHER -> 1]
ChainTicketsOf == [s \in ChainSystems |->
  CASE s = "make" -> Ticket1("data", 0) \o Ticket1("log", 0)
    [] s = "use"  -> Ticket1("data", 1)
    [] s = "dump" -> Ticket1("data", 2) \o Ticket1("log", 1)
    [] OTHER -> <<>>]
TickTock == {"tick", "tock"}
TickOnly == {"tick"}
PosAndVel == {"pos", "vel"}
Part(c, m) == <<[component |-> c, is_mutable |-> m]>>
ChainComponentsOf == [s \in ChainSystems |->
  CASE s = "dump" -> Part("pos", TRUE) \o Part("vel", FALSE)
    [] s \in TickTock -> Part("pos", TRUE)
    [] s = "use" -> Part("vel", TRUE)
    [] OTHER -> Part("pos", FALSE)]

\* One barrier, one ticket in each of three programs.
OneTicketBarrier == {"data"}
ThreeSystems == {"first", "second", "third"}
ThreeProgramOf == [s \in ThreeSystems |->
  CASE s = "first" -> 0 [] s = "second" -> 1 [] OTHER -> 2]
ThreeTicketsOf == [s \in ThreeSystems |->
  CASE s = "first" -> Ticket1("data", 0)
    [] s = "second" -> Ticket1("data", 1)
    [] OTHER -> Ticket1("data", 2)]
ThirdOnly == {"third"}
NoComponents == [s \in ThreeSystems |-> <<>>]

\* Two programs, without barriers: one walks a shared component, the other joins
\* it with another one and changes it.
WalkAndJoin == {"walk", "join"}
JoinProgramOf == [s \in WalkAndJoin |-> IF s = "walk" THEN 0 ELSE 1]
NoTickets == [s \in WalkAndJoin |-> <<>>]
JoinComponentsOf == [s \in WalkAndJoin |->
  IF s = "walk" THEN Part("pos", FALSE) ELSE Part("pos", TRUE) \o Part("vel", FALSE)]
PosOnly == {"pos"}
=============================================================================
