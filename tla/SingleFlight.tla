---------------------------- MODULE SingleFlight ----------------------------
(***************************************************************************)
(* What core/queue promises to core/server, without threads, mutex or      *)
(* condition variable.  A caller asks; it is refused when the line is full *)
(* and accepted at the end of the line otherwise; the head of the line is  *)
(* served, one caller at a time; the caller being served gets one answer   *)
(* and leaves.  Once the service is closed it retires, and only with an    *)
(* empty line.  What happens to a caller accepted after that is left open  *)
(* here because the code leaves it open.                                   *)
(***************************************************************************)
EXTENDS Naturals, Sequences

CONSTANTS Callers,    \* the threads that call generate()
          Capacity,   \* how many may stand in line
          Answers,    \* what a served caller can be told
          Nobody      \* not a caller

VARIABLES inside,     \* the callers that asked and have not left
          line,       \* those accepted and not yet served, in order
          serving,    \* the one being served, or Nobody
          answer,     \* what each caller was last told
          closed,     \* the service was asked to stop
          retired     \* the service has stopped

sfVars == <<inside, line, serving, answer, closed, retired>>

InLine(c) == \E i \in 1..Len(line) : line[i] = c

SFInit ==
  /\ inside = {}
  /\ line = << >>
  /\ serving = Nobody
  /\ answer = [c \in Callers |-> "none"]
  /\ closed = FALSE
  /\ retired = FALSE

Ask(c) ==
  /\ c \notin inside
  /\ inside' = inside \cup {c}
  /\ answer' = [answer EXCEPT ![c] = "none"]
  /\ UNCHANGED <<line, serving, closed, retired>>

Refuse(c) ==
  /\ c \in inside
  /\ answer[c] = "none"
  /\ ~InLine(c) /\ serving # c
  /\ Len(line) >= Capacity
  /\ inside' = inside \ {c}
  /\ answer' = [answer EXCEPT ![c] = "overloaded"]
  /\ UNCHANGED <<line, serving, closed, retired>>

Accept(c) ==
  /\ c \in inside
  /\ answer[c] = "none"
  /\ ~InLine(c) /\ serving # c
  /\ Len(line) < Capacity
  /\ line' = Append(line, c)
  /\ UNCHANGED <<inside, serving, answer, closed, retired>>

Serve ==
  /\ ~retired
  /\ serving = Nobody
  /\ line # << >>
  /\ serving' = Head(line)
  /\ line' = Tail(line)
  /\ UNCHANGED <<inside, answer, closed, retired>>

Answer(a) ==
  /\ serving \in inside
  /\ answer[serving] = "none"
  /\ answer' = [answer EXCEPT ![serving] = a]
  /\ serving' = Nobody
  /\ UNCHANGED <<inside, line, closed, retired>>

Leave(c) ==
  /\ c \in inside
  /\ answer[c] # "none"
  /\ inside' = inside \ {c}
  /\ UNCHANGED <<line, serving, answer, closed, retired>>

Close ==
  /\ closed' = TRUE
  /\ UNCHANGED <<inside, line, serving, answer, retired>>

Retire ==
  /\ closed
  /\ ~retired
  /\ serving = Nobody
  /\ line = << >>
  /\ retired' = TRUE
  /\ UNCHANGED <<inside, line, serving, answer, closed>>

SFNext ==
  \/ \E c \in Callers : Ask(c) \/ Refuse(c) \/ Accept(c) \/ Leave(c)
  \/ \E a \in Answers : Answer(a)
  \/ Serve \/ Close \/ Retire

SFSpec == SFInit /\ [][SFNext]_sfVars
=============================================================================
