------------------------- MODULE ShellSessionProofs -------------------------
(***************************************************************************)
(* What ShellSession promises for every number of lines, commands on a      *)
(* line, hops, faults and edits, and every set of configs: the shell's hash *)
(* table, the wrappers and the filter, the two markers, the countdown, and  *)
(* that every command keeps the promise of Launch.  First what each step    *)
(* makes of the record of a command, then the invariants, then the theorems. *)
(***************************************************************************)
EXTENDS ShellSession, SequenceTheorems, WellFoundedInduction, TLAPS

Phases == {"idle", "check", "fetch", "countdown", "ask", "unlock", "mark", "exec", "running",
           "ended"}

\* A countdown has time left; a key pressed early waits for no last tick.
EarlyInv(r) ==
    /\ r.at = "countdown" => r.left > 0
    /\ r.early => r.at = "countdown" /\ r.key # "none" /\ (r.tick => r.left > 1)

\* Where the first hop of a command is, and what the user has said.
HeldInv(r) ==
    /\ r.at \notin {"idle", "running", "ended"} => r.is \in {"shim", "run"}
    /\ r.at = "exec" => r.out \in {"plain", "bypassed", "injected"} \/ r.hops # 0
    /\ r.hops = 0 /\ r.at = "exec" =>
          r.answer # "abort" /\ (r.answer = "continue" => r.out # "injected")
    /\ r.at = "idle" => r = Idle
    /\ r.at = "idle" => r.hops = 0 /\ r.out = "none" /\ r.answer = "none"
    /\ r.out = "none" => r.hops = 0
    /\ r.at \in {"exec", "running", "ended"} => r.out # "none"
    /\ r.hops = 0 /\ r.at \notin {"exec", "running", "ended"} => r.out = "none"
    /\ r.hops = 0 /\ r.at \in {"check", "fetch", "countdown", "ask"} =>
          r.answer = "none" /\ "inj" \notin r.env
    /\ r.hops = 0 /\ r.at = "unlock" => r.answer = "unlock" /\ "inj" \notin r.env
    /\ r.hops = 0 /\ r.at = "mark" =>
          r.answer # "abort" /\ (r.answer = "continue" => "inj" \notin r.env)

JobInv(r) == r \in Job /\ EarlyInv(r) /\ HeldInv(r)

\* One injection and one warning, after which the marker file is there.
FirstOK(r, m) ==
    r.top # "run" /\ r.marked =>
        /\ r.is # "run"
        /\ r.injected <= 1 /\ r.warned <= 1
        /\ r.at = "fetch" => r.injected = 0 /\ r.warned = 0
        /\ r.at \in {"countdown", "ask", "unlock"} => r.injected = 0
        /\ r.at \in {"check", "exec", "running"} /\ r.injected + r.warned > 0 => m # "none"

\* The first command of a line finds no marker but one from the background.
TypedOK(r, m, f, e) ==
    r.first /\ r.top = "shim" /\ r.hops = 0 /\ f = 0 /\ "warned" \notin e =>
        /\ r.is = "shim" /\ r.typed
        /\ r.at \in {"check", "fetch"} => "warned" \notin r.env /\ m # "fg"
        /\ r.at \in {"countdown", "ask", "unlock", "mark"} => r.injected + r.warned > 0
        /\ r.at \in {"exec", "running"} => r.injected + r.warned > 0 \/ m = "bg"

\* What a step may make of one command, in the words of Launch.
Moves(r, s) ==
    \/ Stage(s) = Stage(r) /\ s.answer = r.answer
    \/ Stage(r) = "idle" /\ Stage(s) \in {"held", "plain"} /\ s.answer = r.answer
    \/ Stage(r) = "held" /\ Stage(s) = "held" /\ r.answer = "none"
       /\ s.answer \in {"continue", "unlock"}
    \/ Stage(r) = "held" /\ Stage(s) = "refused" /\ r.answer = "none" /\ s.answer = "abort"
    \/ Stage(r) = "held" /\ Stage(s) = "refused" /\ s.answer = r.answer
    \/ Stage(r) = "held" /\ Stage(s) = "plain" /\ s.answer = r.answer
    \/ Stage(r) = "held" /\ Stage(s) = "injected" /\ s.answer = r.answer /\ r.answer # "continue"
    \/ Stage(r) \in {"injected", "plain", "refused"} /\ Stage(s) = "idle" /\ s.answer = "none"

EarlyOK(r, s) ==
    r.hops = 0 /\ r.early /\ s.at # "countdown" => s.answer = ClassifyKey(r.key)

-----------------------------------------------------------------------------
(* Records of commands.                                                     *)

\* Each field takes the values of its type.
LEMMA Updates ==
    ASSUME NEW r \in Job
    PROVE  /\ \A x \in Phases : [r EXCEPT !.at = x] \in Job
           /\ \A x \in {"none", "plain", "bypassed", "injected", "refused"} :
                 [r EXCEPT !.out = x] \in Job
           /\ \A x \in 0 .. Delay : [r EXCEPT !.left = x] \in Job
           /\ \A x \in Keys \cup {"none"} : [r EXCEPT !.key = x] \in Job
           /\ \A x \in BOOLEAN : [r EXCEPT !.tick = x] \in Job
           /\ \A x \in BOOLEAN : [r EXCEPT !.early = x] \in Job
           /\ \A x \in SUBSET {"shell", "inj", "stale", "warned"} : [r EXCEPT !.env = x] \in Job
           /\ [r EXCEPT !.injected = @ + 1] \in Job
           /\ [r EXCEPT !.warned = @ + 1] \in Job
           /\ [r EXCEPT !.hops = @ + 1] \in Job
           /\ \A x \in {"none", "continue", "abort", "unlock"} : [r EXCEPT !.answer = x] \in Job
           /\ [r EXCEPT !.marked = FALSE] \in Job
           /\ \A x \in {"none", "shim", "run", "real"} : [r EXCEPT !.is = x] \in Job
           /\ \A x \in BOOLEAN : [r EXCEPT !.typed = x] \in Job
<1> USE DEF Job, Phases
<1>1. \A x \in Phases : [r EXCEPT !.at = x] \in Job
  OBVIOUS
<1>2. \A x \in {"none", "plain", "bypassed", "injected", "refused"} :
        [r EXCEPT !.out = x] \in Job
  OBVIOUS
<1>3. \A x \in 0 .. Delay : [r EXCEPT !.left = x] \in Job
  OBVIOUS
<1>4. \A x \in Keys \cup {"none"} : [r EXCEPT !.key = x] \in Job
  OBVIOUS
<1>5. \A x \in BOOLEAN : [r EXCEPT !.tick = x] \in Job
  OBVIOUS
<1>6. \A x \in BOOLEAN : [r EXCEPT !.early = x] \in Job
  OBVIOUS
<1>7. \A x \in SUBSET {"shell", "inj", "stale", "warned"} : [r EXCEPT !.env = x] \in Job
  OBVIOUS
<1>8. [r EXCEPT !.injected = @ + 1] \in Job
  OBVIOUS
<1>9. [r EXCEPT !.warned = @ + 1] \in Job
  OBVIOUS
<1>10. [r EXCEPT !.hops = @ + 1] \in Job
  OBVIOUS
<1>11. \A x \in {"none", "continue", "abort", "unlock"} : [r EXCEPT !.answer = x] \in Job
  OBVIOUS
<1>12. [r EXCEPT !.marked = FALSE] \in Job
  OBVIOUS
<1>13. \A x \in {"none", "shim", "run", "real"} : [r EXCEPT !.is = x] \in Job
  OBVIOUS
<1>14. \A x \in BOOLEAN : [r EXCEPT !.typed = x] \in Job
  OBVIOUS
<1> HIDE DEF Job
<1> QED
  BY <1>1, <1>2, <1>3, <1>4, <1>5, <1>6, <1>7, <1>8, <1>9, <1>10, <1>11, <1>12, <1>13, <1>14

\* The parts of a record that only Hop changes.
Core(r, s) ==
    /\ s.is = r.is /\ s.top = r.top /\ s.first = r.first
    /\ s.typed = r.typed /\ s.hops = r.hops

\* What Calm makes of a record.
LEMMA CalmFacts ==
    ASSUME NEW r \in Job
    PROVE  /\ Calm(r) \in Job
           /\ Core(r, Calm(r)) /\ Calm(r).at = r.at /\ Calm(r).env = r.env
           /\ Calm(r).out = r.out /\ Calm(r).injected = r.injected /\ Calm(r).warned = r.warned
           /\ Calm(r).answer = r.answer /\ Calm(r).marked = r.marked
           /\ ~Calm(r).early
<1> DEFINE a == [r EXCEPT !.left = 0]
           b == [a EXCEPT !.key = "none"]
           c == [b EXCEPT !.tick = FALSE]
           d == [c EXCEPT !.early = FALSE]
<1>0. 0 \in 0 .. Delay
  BY SessionAssumption DEF SessionAssumption
<1>1. a \in Job
  BY <1>0, Updates
<1>2. b \in Job
  BY <1>1, Updates
<1>3. c \in Job
  BY <1>2, Updates
<1>4. d \in Job
  BY <1>3, Updates
<1>5. Calm(r) = d
  BY DEF Calm
<1> HIDE DEF a, b, c, d
<1>6. Calm(r) \in Job
  BY <1>4, <1>5
<1> QED
  BY <1>6 DEF Calm, Core, Job

Outs == {"plain", "bypassed", "injected"}

\* What Exec makes of a record.
LEMMA ExecFacts ==
    ASSUME NEW r \in Job, NEW out \in Outs
    PROVE  LET s == Exec(r, out) IN
           /\ s \in Job /\ Core(r, s) /\ s.at = "exec" /\ s.env = r.env
           /\ s.out = IF r.hops = 0 THEN out ELSE r.out
           /\ s.injected = r.injected /\ s.warned = r.warned
           /\ s.answer = r.answer /\ s.marked = r.marked /\ ~s.early
<1> DEFINE c == Calm(r)
           o == IF r.hops = 0 THEN out ELSE r.out
           a == [c EXCEPT !.at = "exec"]
           b == [a EXCEPT !.out = o]
<1>1. c \in Job /\ c.out = r.out
  BY CalmFacts
<1>2. a \in Job
  BY <1>1, Updates DEF Phases
<1>3. o \in {"none", "plain", "bypassed", "injected", "refused"}
  BY DEF Job, Outs
<1>4. b \in Job
  BY <1>2, <1>3, Updates
<1>5. Exec(r, out) = b
  BY <1>1 DEF Exec, Job
<1> HIDE DEF c, o, a, b
<1>6. Exec(r, out) \in Job
  BY <1>4, <1>5
<1>7. /\ b.at = "exec" /\ b.out = o /\ Core(c, b) /\ b.env = c.env
      /\ b.injected = c.injected /\ b.warned = c.warned /\ b.answer = c.answer
      /\ b.marked = c.marked /\ b.early = c.early
  BY <1>1 DEF a, b, Core, Job
<1> QED
  BY <1>5, <1>6, <1>7, CalmFacts DEF c, o, Core

\* What Injected makes of a record.
LEMMA InjectedFacts ==
    ASSUME NEW r \in Job
    PROVE  LET s == Injected(r) IN
           /\ s \in Job /\ Core(r, s) /\ s.env = r.env \cup {"inj"}
           /\ s.injected = r.injected + 1 /\ s.warned = r.warned
           /\ s.answer = r.answer /\ s.marked = r.marked
           /\ r.is = "shim" => s.at = "mark" /\ s.out = r.out /\ s.early = r.early
           /\ r.is # "shim" => /\ s.at = "exec" /\ ~s.early
                               /\ s.out = IF r.hops = 0 THEN "injected" ELSE r.out
<1> DEFINE a == [r EXCEPT !.env = r.env \cup {"inj"}]
           b == [a EXCEPT !.injected = @ + 1]
           c == [b EXCEPT !.at = "mark"]
           d == Exec(b, "injected")
<1>1. r.env \cup {"inj"} \in SUBSET {"shell", "inj", "stale", "warned"}
  BY DEF Job
<1>2. a \in Job
  BY <1>1, Updates
<1>3. b \in Job
  BY <1>2, Updates
<1>4. c \in Job
  BY <1>3, Updates DEF Phases
<1>5. Injected(r) = IF r.is = "shim" THEN c ELSE d
  BY DEF Injected, Job
<1>6. /\ Core(r, b) /\ b.env = r.env \cup {"inj"} /\ b.at = r.at /\ b.out = r.out
      /\ b.injected = r.injected + 1 /\ b.warned = r.warned /\ b.early = r.early
      /\ b.answer = r.answer /\ b.marked = r.marked
  BY DEF Core, Job
<1> HIDE DEF a, b
<1>7. /\ Core(b, c) /\ c.env = b.env /\ c.out = b.out /\ c.at = "mark"
      /\ c.injected = b.injected /\ c.warned = b.warned /\ c.early = b.early
      /\ c.answer = b.answer /\ c.marked = b.marked
  BY <1>3 DEF Core, Job
<1>8. /\ d \in Job /\ Core(b, d) /\ d.env = b.env /\ d.at = "exec" /\ ~d.early
      /\ d.injected = b.injected /\ d.warned = b.warned
      /\ d.answer = b.answer /\ d.marked = b.marked
      /\ d.out = IF b.hops = 0 THEN "injected" ELSE b.out
  BY <1>3, ExecFacts DEF Outs
<1> HIDE DEF c, d
<1> QED
  BY <1>4, <1>5, <1>6, <1>7, <1>8 DEF Core

\* What Continued makes of a record.
LEMMA ContinuedFacts ==
    ASSUME NEW r \in Job
    PROVE  LET s == Continued(r) IN
           /\ s \in Job /\ Core(r, s)
           /\ s.injected = r.injected /\ s.warned = r.warned
           /\ s.answer = r.answer /\ s.marked = r.marked
           /\ r.is = "shim" => /\ s.at = "mark" /\ s.out = r.out /\ s.early = r.early
                               /\ s.env = r.env \cup {"warned"}
           /\ r.is # "shim" => /\ s.at = "exec" /\ ~s.early /\ s.env = r.env
                               /\ s.out = IF r.hops = 0 THEN "plain" ELSE r.out
<1> DEFINE a == [r EXCEPT !.at = "mark"]
           b == [a EXCEPT !.env = r.env \cup {"warned"}]
           d == Exec(r, "plain")
<1>1. r.env \cup {"warned"} \in SUBSET {"shell", "inj", "stale", "warned"}
  BY DEF Job
<1>2. a \in Job
  BY Updates DEF Phases
<1>3. b \in Job
  BY <1>1, <1>2, Updates
<1>4. Continued(r) = IF r.is = "shim" THEN b ELSE d
  BY DEF Continued, Job
<1>5. /\ Core(r, b) /\ b.env = r.env \cup {"warned"} /\ b.at = "mark" /\ b.out = r.out
      /\ b.injected = r.injected /\ b.warned = r.warned /\ b.early = r.early
      /\ b.answer = r.answer /\ b.marked = r.marked
  BY DEF Core, Job
<1>6. /\ d \in Job /\ Core(r, d) /\ d.env = r.env /\ d.at = "exec" /\ ~d.early
      /\ d.injected = r.injected /\ d.warned = r.warned
      /\ d.answer = r.answer /\ d.marked = r.marked
      /\ d.out = IF r.hops = 0 THEN "plain" ELSE r.out
  BY ExecFacts DEF Outs
<1> HIDE DEF a, b, d
<1> QED
  BY <1>3, <1>4, <1>5, <1>6

\* What GivenUp makes of a record.
LEMMA GivenUpFacts ==
    ASSUME NEW r \in Job
    PROVE  LET s == GivenUp(r) IN
           /\ s \in Job /\ Core(r, s) /\ s.at = "ended" /\ s.env = r.env
           /\ s.out = IF r.hops = 0 THEN "refused" ELSE r.out
           /\ s.injected = r.injected /\ s.warned = r.warned
           /\ s.answer = r.answer /\ s.marked = r.marked /\ s.early = r.early
<1> DEFINE o == IF r.hops = 0 THEN "refused" ELSE r.out
           a == [r EXCEPT !.at = "ended"]
           b == [a EXCEPT !.out = o]
<1>1. a \in Job
  BY Updates DEF Phases
<1>2. o \in {"none", "plain", "bypassed", "injected", "refused"}
  BY DEF Job
<1>3. b \in Job
  BY <1>1, <1>2, Updates
<1>4. GivenUp(r) = b
  BY DEF GivenUp, Job
<1> QED
  BY <1>3, <1>4 DEF Core, Job

\* What Answered makes of a record.
LEMMA AnsweredFacts ==
    ASSUME NEW r \in Job, NEW answer \in {"continue", "abort", "unlock"}
    PROVE  LET s == Answered(r, answer) IN
           /\ s \in Job /\ Core(r, s) /\ ~s.early /\ s.marked = r.marked
           /\ s.injected = r.injected /\ s.warned = r.warned
           /\ s.answer = IF r.hops = 0 THEN answer ELSE r.answer
           /\ "inj" \in s.env <=> "inj" \in r.env
           /\ answer = "abort" => /\ s.at = "ended"
                                  /\ s.out = IF r.hops = 0 THEN "refused" ELSE r.out
           /\ answer = "unlock" => s.at = "unlock" /\ s.out = r.out
           /\ answer = "continue" /\ r.is = "shim" => s.at = "mark" /\ s.out = r.out
           /\ answer = "continue" /\ r.is # "shim" =>
                 s.at = "exec" /\ s.out = IF r.hops = 0 THEN "plain" ELSE r.out
<1> DEFINE c == Calm(r)
           x == IF r.hops = 0 THEN answer ELSE r.answer
           n == [c EXCEPT !.answer = x]
           o == IF r.hops = 0 THEN "refused" ELSE r.out
           f == GivenUp(n)
           u == [n EXCEPT !.at = "unlock"]
           w == Continued(n)
<1>1. /\ c \in Job /\ Core(r, c) /\ c.at = r.at /\ c.env = r.env /\ c.out = r.out
      /\ c.injected = r.injected /\ c.warned = r.warned /\ c.answer = r.answer
      /\ c.marked = r.marked /\ ~c.early
  BY CalmFacts
<1>2. x \in {"none", "continue", "abort", "unlock"} /\
      o \in {"none", "plain", "bypassed", "injected", "refused"}
  BY DEF Job
<1>3. n = [Calm(r) EXCEPT !.answer = IF r.hops = 0 THEN answer ELSE @]
  BY <1>1 DEF Job
<1> HIDE DEF c, x, o
<1>4. n \in Job
  BY <1>1, <1>2, Updates
<1>5. /\ Core(c, n) /\ n.at = c.at /\ n.env = c.env /\ n.out = c.out
      /\ n.injected = c.injected /\ n.warned = c.warned /\ n.answer = x
      /\ n.marked = c.marked /\ n.early = c.early
  BY <1>1 DEF Core, Job
<1> HIDE DEF n
<1>6. u \in Job
  BY <1>4, Updates DEF Phases
<1>7. f \in Job /\ Core(n, f) /\ f.at = "ended" /\ f.env = n.env
      /\ f.out = IF n.hops = 0 THEN "refused" ELSE n.out
  BY <1>4, GivenUpFacts
<1>8. /\ Core(n, f) /\ f.at = "ended" /\ f.env = n.env /\ f.out = o
      /\ f.injected = n.injected /\ f.warned = n.warned /\ f.answer = n.answer
      /\ f.marked = n.marked /\ f.early = n.early
  BY <1>1, <1>4, <1>5, <1>7, GivenUpFacts DEF o, Core
<1>9. /\ Core(n, u) /\ u.at = "unlock" /\ u.env = n.env /\ u.out = n.out
      /\ u.injected = n.injected /\ u.warned = n.warned /\ u.answer = n.answer
      /\ u.marked = n.marked /\ u.early = n.early
  BY <1>4 DEF Core, Job
<1>10. answer \in {"continue", "abort", "unlock"}
  OBVIOUS
<1>11. /\ w \in Job /\ Core(n, w)
       /\ w.injected = n.injected /\ w.warned = n.warned
       /\ w.answer = n.answer /\ w.marked = n.marked
       /\ n.is = "shim" => /\ w.at = "mark" /\ w.out = n.out /\ w.early = n.early
                           /\ w.env = n.env \cup {"warned"}
       /\ n.is # "shim" => /\ w.at = "exec" /\ ~w.early /\ w.env = n.env
                           /\ w.out = IF n.hops = 0 THEN "plain" ELSE n.out
  BY <1>4, ContinuedFacts
<1> HIDE DEF f, u, w
<1>12. /\ answer = "abort" => Answered(r, answer) = f
       /\ answer = "unlock" => Answered(r, answer) = u
       /\ answer = "continue" => Answered(r, answer) = w
  BY <1>3, <1>10 DEF Answered, f, u, w
<1>13. CASE answer = "abort"
  BY <1>1, <1>5, <1>7, <1>8, <1>12, <1>13 DEF Core, x, o
<1>14. CASE answer = "unlock"
  BY <1>1, <1>5, <1>6, <1>9, <1>12, <1>14 DEF Core, x
<1>15. CASE answer = "continue"
  BY <1>1, <1>5, <1>11, <1>12, <1>15 DEF Core, x
<1> QED
  BY <1>13, <1>14, <1>15

\* The record of a free slot.
LEMMA IdleFacts == JobInv(Idle)
<1>1. 0 \in 0 .. Delay
  BY SessionAssumption DEF SessionAssumption
<1> QED
  BY <1>1 DEF JobInv, EarlyInv, HeldInv, Idle, Job

\* A command that starts: nothing was asked or injected yet.
Started(s, is, first) ==
    /\ s \in Job /\ s.is = is /\ s.top = is /\ s.first = first /\ s.typed
    /\ s.env = env /\ s.hops = 0 /\ s.injected = 0 /\ s.warned = 0
    /\ s.answer = "none" /\ s.marked /\ ~s.early
    /\ is = "real" => s.at = "running" /\ s.out = "plain"
    /\ is # "real" => s.at = "check" /\ s.out = "none"

\* The record of a command that starts.
LEMMA ProgramFacts ==
    ASSUME NEW is \in {"shim", "run", "real"}, NEW first \in BOOLEAN,
           env \subseteq {"shell", "stale", "warned"}
    PROVE  Started(Program(is, first), is, first)
<1> DEFINE a == [Idle EXCEPT !.is = is]
           b == [a EXCEPT !.top = is]
           c == [b EXCEPT !.first = first]
           d == [c EXCEPT !.typed = TRUE]
           e == [d EXCEPT !.env = env]
           f == [e EXCEPT !.at = IF is = "real" THEN "running" ELSE "check"]
           g == [f EXCEPT !.out = IF is = "real" THEN "plain" ELSE "none"]
<1>1. Program(is, first) = g
  BY DEF Program
<1>2. Idle \in Job
  BY IdleFacts DEF JobInv
<1>3. a \in Job
  BY <1>2, Updates
<1>4. b \in Job /\ c \in Job
  BY <1>3 DEF Job
<1>5. d \in Job
  BY <1>4, Updates
<1>6. e \in Job
  BY <1>5, Updates
<1>7. f \in Job
  BY <1>6, Updates DEF Phases
<1>8. g \in Job
  BY <1>7, Updates
<1>9. /\ e.is = is /\ e.top = is /\ e.first = first /\ e.typed /\ e.env = env
      /\ e.hops = 0 /\ e.injected = 0 /\ e.warned = 0
      /\ e.answer = "none" /\ e.marked /\ ~e.early
  BY DEF Idle
<1> HIDE DEF e
<1>10. /\ g.is = e.is /\ g.top = e.top /\ g.first = e.first /\ g.typed = e.typed
       /\ g.env = e.env /\ g.hops = e.hops /\ g.injected = e.injected
       /\ g.warned = e.warned /\ g.answer = e.answer /\ g.marked = e.marked
       /\ g.early = e.early
       /\ g.at = (IF is = "real" THEN "running" ELSE "check")
       /\ g.out = (IF is = "real" THEN "plain" ELSE "none")
  BY <1>6 DEF Job
<1> HIDE DEF g
<1> QED
  BY <1>1, <1>8, <1>9, <1>10 DEF Started

-----------------------------------------------------------------------------
(* What each step of a command does to its own record.                       *)

\* What is known before a step of a command.
Sane(j) ==
    /\ job \in [Slots -> Job] /\ JobInv(job[j])
    /\ faults \in Nat /\ marker \in Slots \cup {"none"}

\* From a record r to s, while the marker file and the count of faults go
\* from m to n and from f to g.
GoodStep(r, s, m, n, f, g, e) ==
    /\ JobInv(s) /\ Moves(r, s) /\ EarlyOK(r, s)
    /\ FirstOK(r, m) => FirstOK(s, n)
    /\ TypedOK(r, m, f, e) => TypedOK(s, n, g, e)

Good(j) == GoodStep(job[j], job'[j], marker, marker', faults, faults', env)

\* The shim goes on to the fetch, or lets the program run.
LEMMA ShimCheckGood ==
    ASSUME NEW j \in Slots, Sane(j), ShimCheck(j)
    PROVE  Good(j)
<1> DEFINE r == job[j]
           s == job'[j]
           pass == InjectionApplied(r) \/ MarkerFileSays
           ask == ShouldInject(r) /\ "warned" \notin r.env
<1>1. /\ r \in Job /\ JobInv(r) /\ r.is = "shim" /\ r.at = "check"
      /\ marker' = marker /\ faults' = faults
      /\ s = IF pass THEN Exec(r, "bypassed")
             ELSE IF ask THEN [r EXCEPT !.at = "fetch"] ELSE Exec(r, "plain")
  BY DEF Sane, ShimCheck, Step, Becomes
<1> HIDE DEF r, s
<1>2. CASE pass \/ ~ask
  <2>1. PICK o \in Outs :
           /\ s = Exec(r, o)
           /\ o = "plain" => ~ask /\ marker = "none"
           /\ o # "injected"
    BY <1>1, <1>2 DEF MarkerFileSays, Outs
  <2>2. /\ s \in Job /\ Core(r, s) /\ s.at = "exec" /\ s.env = r.env
        /\ s.out = IF r.hops = 0 THEN o ELSE r.out
        /\ s.injected = r.injected /\ s.warned = r.warned
        /\ s.answer = r.answer /\ s.marked = r.marked /\ ~s.early
    <3>1. r \in Job /\ s = Exec(r, o)
      BY <1>1, <2>1
    <3> QED
      BY <3>1, ExecFacts
  <2>3. JobInv(s)
    BY <1>1, <2>1, <2>2 DEF JobInv, EarlyInv, HeldInv, Core, Outs
  <2>4. Moves(r, s)
    BY <1>1, <2>1, <2>2 DEF Outs, Moves, Stage, JobInv, HeldInv, Core
  <2>5. EarlyOK(r, s)
    BY <1>1 DEF EarlyOK, JobInv, EarlyInv
  <2>6. FirstOK(r, marker) => FirstOK(s, marker')
    BY <1>1, <2>2 DEF FirstOK, Core
  <2>7. TypedOK(r, marker, faults, env) => TypedOK(s, marker', faults', env)
    <3>1. SUFFICES ASSUME TypedOK(r, marker, faults, env)
                   PROVE  TypedOK(s, marker', faults', env)
      OBVIOUS
    <3> QED
      BY <3>1, <1>1, <2>1, <2>2 DEF TypedOK, Core, ShouldInject, InjectionApplied,
         JobInv, HeldInv, MarkerFileSays, Sane, Slots
  <2> QED
    BY <2>3, <2>4, <2>5, <2>6, <2>7 DEF Good, GoodStep, r, s
<1>3. CASE ~pass /\ ask
  <2>1. /\ s = [r EXCEPT !.at = "fetch"] /\ marker = "none"
    BY <1>1, <1>3 DEF MarkerFileSays
  <2>2. /\ s \in Job /\ Core(r, s) /\ s.at = "fetch" /\ s.env = r.env
        /\ s.out = r.out /\ s.injected = r.injected /\ s.warned = r.warned
        /\ s.answer = r.answer /\ s.marked = r.marked /\ s.early = r.early
    BY <1>1, <2>1 DEF Core, Job
  <2>3. JobInv(s)
    BY <1>1, <2>2 DEF JobInv, EarlyInv, HeldInv, Core
  <2>4. Moves(r, s)
    BY <1>1, <2>2 DEF Moves, Stage, JobInv, HeldInv, Core
  <2>5. EarlyOK(r, s)
    BY <1>1 DEF EarlyOK, JobInv, EarlyInv
  <2>6. FirstOK(r, marker) => FirstOK(s, marker')
    BY <1>1, <2>1, <2>2 DEF FirstOK, Core, Job
  <2>7. TypedOK(r, marker, faults, env) => TypedOK(s, marker', faults', env)
    BY <1>1, <2>1, <2>2 DEF TypedOK, Core
  <2> QED
    BY <2>3, <2>4, <2>5, <2>6, <2>7 DEF Good, GoodStep, r, s
<1> QED
  BY <1>2, <1>3

\* A command is given up before its program runs.
LEMMA GiveUpGood ==
    ASSUME NEW j \in Slots, Sane(j), job[j].at \in {"check", "exec"}, Fault,
           Becomes(j, GivenUp(job[j])), UNCHANGED marker
    PROVE  Good(j)
<1> DEFINE r == job[j]
           s == job'[j]
<1>1. /\ r \in Job /\ JobInv(r) /\ r.at \in {"check", "exec"}
      /\ marker' = marker /\ faults' = faults + 1 /\ faults \in Nat
      /\ s = GivenUp(r)
  BY DEF Sane, Becomes, Fault
<1> HIDE DEF r, s
<1>2. /\ s \in Job /\ Core(r, s) /\ s.at = "ended" /\ s.env = r.env
      /\ s.out = IF r.hops = 0 THEN "refused" ELSE r.out
      /\ s.injected = r.injected /\ s.warned = r.warned
      /\ s.answer = r.answer /\ s.marked = r.marked /\ s.early = r.early
  BY <1>1, GivenUpFacts
<1>3. JobInv(s)
  BY <1>1, <1>2 DEF JobInv, EarlyInv, HeldInv, Core
<1>4. Moves(r, s)
  BY <1>1, <1>2 DEF Moves, Stage, JobInv, HeldInv, Core
<1>5. EarlyOK(r, s)
  BY <1>1, <1>2 DEF EarlyOK, JobInv, EarlyInv
<1>6. FirstOK(r, marker) => FirstOK(s, marker')
  BY <1>1, <1>2 DEF FirstOK, Core, Job, JobInv, HeldInv
<1>7. TypedOK(r, marker, faults, env) => TypedOK(s, marker', faults', env)
  BY <1>1, <1>2 DEF TypedOK, Core, Job
<1> QED
  BY <1>3, <1>4, <1>5, <1>6, <1>7 DEF Good, GoodStep, r, s

\* There is no program, or it cannot be executed.
LEMMA NotFoundGood ==
    ASSUME NEW j \in Slots, Sane(j), NotFound(j) \/ ExecFails(j)
    PROVE  Good(j)
BY GiveUpGood DEF NotFound, ExecFails, Step

\* The program runs.
LEMMA ExecutesGood ==
    ASSUME NEW j \in Slots, Sane(j), Executes(j)
    PROVE  Good(j)
<1> DEFINE r == job[j]
           s == job'[j]
<1>1. /\ r \in Job /\ JobInv(r) /\ r.at = "exec"
      /\ marker' = marker /\ faults' = faults /\ s = [r EXCEPT !.at = "running"]
  BY DEF Sane, Executes, Step, Becomes
<1> HIDE DEF r, s
<1>2. s \in Job
  BY <1>1, Updates DEF Phases
<1>3. /\ Core(r, s) /\ s.at = "running" /\ s.env = r.env /\ s.out = r.out
      /\ s.injected = r.injected /\ s.warned = r.warned
      /\ s.answer = r.answer /\ s.marked = r.marked /\ s.early = r.early
  BY <1>1 DEF Core, Job
<1>4. JobInv(s)
  BY <1>1, <1>2, <1>3 DEF JobInv, EarlyInv, HeldInv, Core
<1>5. Moves(r, s)
  BY <1>1, <1>2, <1>3 DEF Moves, Stage, JobInv, HeldInv, Core, Job
<1>6. EarlyOK(r, s)
  BY <1>1, <1>3 DEF EarlyOK, JobInv, EarlyInv
<1>7. FirstOK(r, marker) => FirstOK(s, marker')
  BY <1>1, <1>3 DEF FirstOK, Core, Job, JobInv, HeldInv
<1>8. TypedOK(r, marker, faults, env) => TypedOK(s, marker', faults', env)
  BY <1>1, <1>3 DEF TypedOK, Core, Job
<1> QED
  BY <1>4, <1>5, <1>6, <1>7, <1>8 DEF Good, GoodStep, r, s

\* `jitenv run` goes on to the fetch, or lets the program run.
LEMMA RunCheckGood ==
    ASSUME NEW j \in Slots, Sane(j), RunCheck(j)
    PROVE  Good(j)
<1> DEFINE r == job[j]
           s == job'[j]
<1>1. /\ r \in Job /\ JobInv(r) /\ r.is = "run" /\ r.at = "check"
      /\ marker' = marker /\ faults' = faults
      /\ s = IF InjectionApplied(r) THEN Exec(r, "bypassed") ELSE [r EXCEPT !.at = "fetch"]
  BY DEF Sane, RunCheck, Step, Becomes
<1> HIDE DEF r, s
<1>2. CASE InjectionApplied(r)
  <2>1. /\ s \in Job /\ Core(r, s) /\ s.at = "exec" /\ s.env = r.env
        /\ s.out = IF r.hops = 0 THEN "bypassed" ELSE r.out
        /\ s.injected = r.injected /\ s.warned = r.warned
        /\ s.answer = r.answer /\ s.marked = r.marked /\ ~s.early
    <3>1. r \in Job /\ s = Exec(r, "bypassed")
      BY <1>1, <1>2
    <3> QED
      BY <3>1, ExecFacts DEF Outs
  <2>2. JobInv(s)
    BY <1>1, <2>1 DEF JobInv, EarlyInv, HeldInv, Core
  <2>3. Moves(r, s)
    BY <1>1, <2>1 DEF Moves, Stage, JobInv, HeldInv, Core
  <2>4. EarlyOK(r, s)
    BY <1>1, <2>1 DEF EarlyOK, JobInv, EarlyInv
  <2>5. FirstOK(r, marker) => FirstOK(s, marker')
    BY <1>1, <2>1 DEF FirstOK, Core, Job, JobInv, HeldInv
  <2>6. TypedOK(r, marker, faults, env) => TypedOK(s, marker', faults', env)
    BY <1>1, <2>1 DEF TypedOK, Core, Job
  <2> QED
    BY <2>2, <2>3, <2>4, <2>5, <2>6 DEF Good, GoodStep, r, s
<1>3. CASE ~InjectionApplied(r)
  <2>1. /\ s \in Job /\ Core(r, s) /\ s.at = "fetch" /\ s.env = r.env
        /\ s.out = r.out /\ s.injected = r.injected /\ s.warned = r.warned
        /\ s.answer = r.answer /\ s.marked = r.marked /\ s.early = r.early
    BY <1>1, <1>3 DEF Core, Job
  <2>2. JobInv(s)
    BY <1>1, <2>1 DEF JobInv, EarlyInv, HeldInv, Core
  <2>3. Moves(r, s)
    BY <1>1, <2>1 DEF Moves, Stage, JobInv, HeldInv, Core
  <2>4. EarlyOK(r, s)
    BY <1>1, <2>1 DEF EarlyOK, JobInv, EarlyInv
  <2>5. FirstOK(r, marker) => FirstOK(s, marker')
    BY <1>1, <2>1 DEF FirstOK, Core, Job, JobInv, HeldInv
  <2>6. TypedOK(r, marker, faults, env) => TypedOK(s, marker', faults', env)
    BY <1>1, <2>1 DEF TypedOK, Core, Job
  <2> QED
    BY <2>2, <2>3, <2>4, <2>5, <2>6 DEF Good, GoodStep, r, s
<1> QED
  BY <1>2, <1>3

\* The agent answered.
LEMMA FetchOkGood ==
    ASSUME NEW j \in Slots, Sane(j), FetchOk(j)
    PROVE  Good(j)
<1> DEFINE r == job[j]
           s == job'[j]
<1>1. /\ r \in Job /\ JobInv(r) /\ r.is \in {"shim", "run"} /\ r.at = "fetch"
      /\ marker' = marker /\ faults' = faults /\ s = Injected(r)
  BY DEF Sane, FetchOk, Step, Becomes
<1> HIDE DEF r, s
<1>2. /\ s \in Job /\ Core(r, s) /\ s.env = r.env \cup {"inj"}
      /\ s.injected = r.injected + 1 /\ s.warned = r.warned
      /\ s.answer = r.answer /\ s.marked = r.marked
      /\ r.is = "shim" => s.at = "mark" /\ s.out = r.out /\ s.early = r.early
      /\ r.is # "shim" => /\ s.at = "exec" /\ ~s.early
                          /\ s.out = IF r.hops = 0 THEN "injected" ELSE r.out
  BY <1>1, InjectedFacts
<1>3. JobInv(s)
  BY <1>1, <1>2 DEF JobInv, EarlyInv, HeldInv, Core
<1>4. Moves(r, s)
  BY <1>1, <1>2 DEF Moves, Stage, JobInv, HeldInv, Core
<1>5. EarlyOK(r, s)
  BY <1>1, <1>2 DEF EarlyOK, JobInv, EarlyInv
<1>6. FirstOK(r, marker) => FirstOK(s, marker')
  BY <1>1, <1>2 DEF FirstOK, Core, Job, JobInv, HeldInv
<1>7. TypedOK(r, marker, faults, env) => TypedOK(s, marker', faults', env)
  BY <1>1, <1>2 DEF TypedOK, Core, Job
<1> QED
  BY <1>3, <1>4, <1>5, <1>6, <1>7 DEF Good, GoodStep, r, s

\* The shim could not ask.
LEMMA FetchErrorGood ==
    ASSUME NEW j \in Slots, Sane(j), FetchError(j)
    PROVE  Good(j)
<1> DEFINE r == job[j]
           s == job'[j]
<1>1. /\ r \in Job /\ JobInv(r) /\ r.is = "shim" /\ r.at = "fetch"
      /\ marker' = marker /\ faults' = faults + 1 /\ faults \in Nat /\ s = Exec(r, "plain")
  BY DEF Sane, FetchError, Step, Becomes, Fault
<1> HIDE DEF r, s
<1>2. /\ s \in Job /\ Core(r, s) /\ s.at = "exec" /\ s.env = r.env
      /\ s.out = IF r.hops = 0 THEN "plain" ELSE r.out
      /\ s.injected = r.injected /\ s.warned = r.warned
      /\ s.answer = r.answer /\ s.marked = r.marked /\ ~s.early
  BY <1>1, ExecFacts DEF Outs
<1>3. JobInv(s)
  BY <1>1, <1>2 DEF JobInv, EarlyInv, HeldInv, Core
<1>4. Moves(r, s)
  BY <1>1, <1>2 DEF Moves, Stage, JobInv, HeldInv, Core
<1>5. EarlyOK(r, s)
  BY <1>1, <1>2 DEF EarlyOK, JobInv, EarlyInv
<1>6. FirstOK(r, marker) => FirstOK(s, marker')
  BY <1>1, <1>2 DEF FirstOK, Core, Job, JobInv, HeldInv
<1>7. TypedOK(r, marker, faults, env) => TypedOK(s, marker', faults', env)
  BY <1>1, <1>2 DEF TypedOK, Core, Job
<1> QED
  BY <1>3, <1>4, <1>5, <1>6, <1>7 DEF Good, GoodStep, r, s

\* The agent is down.
LEMMA FetchFailsGood ==
    ASSUME NEW j \in Slots, NEW t \in {"raw", "cooked", "none"}, Sane(j), FetchFails(j, t)
    PROVE  Good(j)
<1> DEFINE r == job[j]
           s == job'[j]
           told == [r EXCEPT !.warned = @ + 1]
<1>1. /\ r \in Job /\ JobInv(r) /\ r.is \in {"shim", "run"} /\ r.at = "fetch"
      /\ marker' = marker /\ faults' = faults
      /\ \/ s = Continued(told)
         \/ s = [told EXCEPT !.at = "countdown", !.left = Delay] /\ Delay # 0
         \/ s = [told EXCEPT !.at = "ask"]
  <2>1. /\ r \in Job /\ JobInv(r) /\ r.is \in {"shim", "run"} /\ r.at = "fetch"
        /\ marker' = marker /\ faults' = faults
    BY DEF Sane, FetchFails, Step
  <2>2. s = IF t = "none" \/ Delay = 0 THEN Continued(told)
            ELSE IF t = "raw" THEN [told EXCEPT !.at = "countdown", !.left = Delay]
            ELSE [told EXCEPT !.at = "ask"]
    BY DEF Sane, FetchFails, Becomes
  <2> QED
    BY <2>1, <2>2
<1> HIDE DEF r, s
<1>2. /\ told \in Job /\ Core(r, told) /\ told.env = r.env /\ told.at = r.at
      /\ told.out = r.out /\ told.injected = r.injected /\ told.warned = r.warned + 1
      /\ told.answer = r.answer /\ told.marked = r.marked /\ told.early = r.early
  BY <1>1 DEF Core, Job
<1> HIDE DEF told
<1>3. CASE s = Continued(told)
  <2>1. /\ s \in Job /\ Core(told, s)
        /\ s.injected = told.injected /\ s.warned = told.warned
        /\ s.answer = told.answer /\ s.marked = told.marked
        /\ told.is = "shim" => /\ s.at = "mark" /\ s.out = told.out /\ s.early = told.early
                               /\ s.env = told.env \cup {"warned"}
        /\ told.is # "shim" => /\ s.at = "exec" /\ ~s.early /\ s.env = told.env
                               /\ s.out = IF told.hops = 0 THEN "plain" ELSE told.out
    BY <1>2, <1>3, ContinuedFacts
  <2>2. JobInv(s)
    BY <1>1, <1>2, <2>1 DEF JobInv, EarlyInv, HeldInv, Core
  <2>3. Moves(r, s)
    BY <1>1, <1>2, <2>1 DEF Moves, Stage, JobInv, HeldInv, Core
  <2>4. EarlyOK(r, s)
    BY <1>1, <1>2, <2>1 DEF EarlyOK, JobInv, EarlyInv
  <2>5. FirstOK(r, marker) => FirstOK(s, marker')
    BY <1>1, <1>2, <2>1 DEF FirstOK, Core, Job, JobInv, HeldInv
  <2>6. TypedOK(r, marker, faults, env) => TypedOK(s, marker', faults', env)
    BY <1>1, <1>2, <2>1 DEF TypedOK, Core, Job
  <2> QED
    BY <2>2, <2>3, <2>4, <2>5, <2>6 DEF Good, GoodStep, r, s
<1>4. CASE s = [told EXCEPT !.at = "countdown", !.left = Delay] /\ Delay # 0
  <2> DEFINE c == [told EXCEPT !.at = "countdown"]
             d == [c EXCEPT !.left = Delay]
  <2>1. Delay \in Nat /\ Delay \in 0 .. Delay
    BY SessionAssumption DEF SessionAssumption
  <2>2. c \in Job
    BY <1>2, Updates DEF Phases
  <2>3. d \in Job
    BY <2>1, <2>2, Updates
  <2>4. /\ s \in Job /\ Core(told, s) /\ s.at = "countdown" /\ s.env = told.env
        /\ s.out = told.out /\ s.injected = told.injected /\ s.warned = told.warned
        /\ s.answer = told.answer /\ s.marked = told.marked /\ s.early = told.early
        /\ s.left > 0
    BY <1>2, <1>4, <2>1, <2>3 DEF Core, Job
  <2>5. JobInv(s)
    BY <1>1, <1>2, <2>4 DEF JobInv, EarlyInv, HeldInv, Core
  <2>6. Moves(r, s)
    BY <1>1, <1>2, <2>4 DEF Moves, Stage, JobInv, HeldInv, Core
  <2>7. EarlyOK(r, s)
    BY <1>1, <1>2, <2>4 DEF EarlyOK, JobInv, EarlyInv
  <2>8. FirstOK(r, marker) => FirstOK(s, marker')
    BY <1>1, <1>2, <2>4 DEF FirstOK, Core, Job, JobInv, HeldInv
  <2>9. TypedOK(r, marker, faults, env) => TypedOK(s, marker', faults', env)
    BY <1>1, <1>2, <2>4 DEF TypedOK, Core, Job
  <2> QED
    BY <2>5, <2>6, <2>7, <2>8, <2>9 DEF Good, GoodStep, r, s
<1>5. CASE s = [told EXCEPT !.at = "ask"]
  <2>1. /\ s \in Job /\ Core(told, s) /\ s.at = "ask" /\ s.env = told.env
        /\ s.out = told.out /\ s.injected = told.injected /\ s.warned = told.warned
        /\ s.answer = told.answer /\ s.marked = told.marked /\ s.early = told.early
    BY <1>2, <1>5 DEF Core, Job
  <2>2. JobInv(s)
    BY <1>1, <1>2, <2>1 DEF JobInv, EarlyInv, HeldInv, Core
  <2>3. Moves(r, s)
    BY <1>1, <1>2, <2>1 DEF Moves, Stage, JobInv, HeldInv, Core
  <2>4. EarlyOK(r, s)
    BY <1>1, <1>2, <2>1 DEF EarlyOK, JobInv, EarlyInv
  <2>5. FirstOK(r, marker) => FirstOK(s, marker')
    BY <1>1, <1>2, <2>1 DEF FirstOK, Core, Job, JobInv, HeldInv
  <2>6. TypedOK(r, marker, faults, env) => TypedOK(s, marker', faults', env)
    BY <1>1, <1>2, <2>1 DEF TypedOK, Core, Job
  <2> QED
    BY <2>2, <2>3, <2>4, <2>5, <2>6 DEF Good, GoodStep, r, s
<1> QED
  BY <1>1, <1>3, <1>4, <1>5

\* The marker file is written, or not.
LEMMA MarkGood ==
    ASSUME NEW j \in Slots, Sane(j), Mark(j)
    PROVE  Good(j)
<1> DEFINE r == job[j]
           s == job'[j]
           out == IF "inj" \in r.env THEN "injected" ELSE "plain"
           x == Exec(r, out)
<1>1. /\ r \in Job /\ JobInv(r) /\ r.is = "shim" /\ r.at = "mark" /\ faults \in Nat
      /\ \/ marker' = j /\ faults' = faults /\ s = x
         \/ marker' = marker /\ faults' = faults + 1 /\ s = [x EXCEPT !.marked = FALSE]
  BY DEF Sane, Mark, Step, Becomes, Fault, NoFault
<1> HIDE DEF r, s
<1>2. out \in Outs /\ out # "bypassed"
  BY DEF Outs
<1>3. /\ x \in Job /\ Core(r, x) /\ x.at = "exec" /\ x.env = r.env
      /\ x.out = IF r.hops = 0 THEN out ELSE r.out
      /\ x.injected = r.injected /\ x.warned = r.warned
      /\ x.answer = r.answer /\ x.marked = r.marked /\ ~x.early
  <2>1. r \in Job
    BY <1>1
  <2> HIDE DEF out
  <2> QED
    BY <1>2, <2>1, ExecFacts
<1> HIDE DEF x
<1>4. CASE marker' = j /\ faults' = faults /\ s = x
  <2>1. /\ s \in Job /\ Core(r, s) /\ s.at = "exec" /\ s.env = r.env
        /\ s.out = IF r.hops = 0 THEN out ELSE r.out
        /\ s.injected = r.injected /\ s.warned = r.warned
        /\ s.answer = r.answer /\ s.marked = r.marked /\ ~s.early
        /\ marker' # "none" /\ faults' = faults
    BY <1>3, <1>4 DEF Slots
  <2>2. JobInv(s)
    BY <1>1, <2>1 DEF JobInv, EarlyInv, HeldInv, Core
  <2>3. Moves(r, s)
    BY <1>1, <2>1 DEF Moves, Stage, JobInv, HeldInv, Core
  <2>4. EarlyOK(r, s)
    BY <1>1, <2>1 DEF EarlyOK, JobInv, EarlyInv
  <2>5. FirstOK(r, marker) => FirstOK(s, marker')
    BY <1>1, <2>1 DEF FirstOK, Core, Job, JobInv, HeldInv
  <2>6. TypedOK(r, marker, faults, env) => TypedOK(s, marker', faults', env)
    BY <1>1, <2>1 DEF TypedOK, Core, Job
  <2> QED
    BY <2>2, <2>3, <2>4, <2>5, <2>6 DEF Good, GoodStep, r, s
<1>5. CASE marker' = marker /\ faults' = faults + 1 /\ s = [x EXCEPT !.marked = FALSE]
  <2>1. /\ Core(x, s) /\ s.at = "exec" /\ s.env = x.env /\ s.out = x.out
        /\ s.injected = x.injected /\ s.warned = x.warned
        /\ s.answer = x.answer /\ ~s.marked /\ s.early = x.early
    BY <1>3, <1>5 DEF Core, Job
  <2>2. faults' # 0 /\ s \in Job
    <3>1. [x EXCEPT !.marked = FALSE] \in Job
      BY <1>3, Updates
    <3> QED
      BY <1>1, <1>5, <3>1
  <2>3. JobInv(s)
    BY <1>1, <1>3, <2>1, <2>2 DEF JobInv, EarlyInv, HeldInv, Core
  <2>4. Moves(r, s)
    BY <1>1, <1>3, <2>1, <2>2 DEF Moves, Stage, JobInv, HeldInv, Core
  <2>5. EarlyOK(r, s)
    BY <1>1, <1>3, <2>1, <2>2 DEF EarlyOK, JobInv, EarlyInv
  <2>6. FirstOK(r, marker) => FirstOK(s, marker')
    BY <1>1, <1>3, <2>1, <2>2 DEF FirstOK, Core, Job, JobInv, HeldInv
  <2>7. TypedOK(r, marker, faults, env) => TypedOK(s, marker', faults', env)
    BY <1>1, <1>3, <2>1, <2>2 DEF TypedOK, Core, Job
  <2> QED
    BY <2>3, <2>4, <2>5, <2>6, <2>7 DEF Good, GoodStep, r, s
<1> QED
  BY <1>1, <1>4, <1>5

\* A key arrives.
LEMMA KeyPressedGood ==
    ASSUME NEW j \in Slots, NEW k \in Keys, Sane(j), KeyPressed(j, k)
    PROVE  Good(j)
<1> DEFINE r == job[j]
           s == job'[j]
           a == [r EXCEPT !.key = k]
           b == [a EXCEPT !.early = r.left > 1]
<1>1. /\ r \in Job /\ JobInv(r) /\ r.at = "countdown" /\ r.key = "none"
      /\ marker' = marker /\ faults' = faults /\ s = b
  BY DEF Sane, KeyPressed, Becomes
<1> HIDE DEF r, s
<1>2. a \in Job
  BY <1>1, Updates
<1>3. (r.left > 1) \in BOOLEAN
  OBVIOUS
<1>4. b \in Job
  BY <1>2, <1>3, Updates
<1>5. /\ s \in Job /\ Core(r, s) /\ s.at = r.at /\ s.env = r.env /\ s.out = r.out
      /\ s.injected = r.injected /\ s.warned = r.warned
      /\ s.answer = r.answer /\ s.marked = r.marked
      /\ s.left = r.left /\ s.key = k /\ s.tick = r.tick
  BY <1>1, <1>4 DEF Core, Job
<1>6. k # "none" /\ (s.early => r.left > 1)
  BY <1>1 DEF Keys, Job
<1>7. JobInv(s)
  BY <1>1, <1>5, <1>6 DEF JobInv, EarlyInv, HeldInv, Core
<1>8. Moves(r, s)
  BY <1>1, <1>5, <1>6 DEF Moves, Stage, JobInv, HeldInv, Core
<1>9. EarlyOK(r, s)
  BY <1>1, <1>5, <1>6 DEF EarlyOK, JobInv, EarlyInv
<1>10. FirstOK(r, marker) => FirstOK(s, marker')
  BY <1>1, <1>5, <1>6 DEF FirstOK, Core, Job, JobInv, HeldInv
<1>11. TypedOK(r, marker, faults, env) => TypedOK(s, marker', faults', env)
  BY <1>1, <1>5, <1>6 DEF TypedOK, Core, Job
<1> QED
  BY <1>7, <1>8, <1>9, <1>10, <1>11 DEF Good, GoodStep, r, s

\* The ticker fires.
LEMMA TickFiresGood ==
    ASSUME NEW j \in Slots, Sane(j), TickFires(j)
    PROVE  Good(j)
<1> DEFINE r == job[j]
           s == job'[j]
<1>1. /\ r \in Job /\ JobInv(r) /\ r.at = "countdown" /\ r.key = "none"
      /\ marker' = marker /\ faults' = faults /\ s = [r EXCEPT !.tick = TRUE]
  BY DEF Sane, TickFires, Becomes
<1> HIDE DEF r, s
<1>2. /\ s \in Job /\ Core(r, s) /\ s.at = r.at /\ s.env = r.env /\ s.out = r.out
      /\ s.injected = r.injected /\ s.warned = r.warned
      /\ s.answer = r.answer /\ s.marked = r.marked
      /\ s.left = r.left /\ s.key = r.key /\ s.early = r.early
  BY <1>1 DEF Core, Job
<1>3. JobInv(s)
  BY <1>1, <1>2 DEF JobInv, EarlyInv, HeldInv, Core
<1>4. Moves(r, s)
  BY <1>1, <1>2 DEF Moves, Stage, JobInv, HeldInv, Core
<1>5. EarlyOK(r, s)
  BY <1>1, <1>2 DEF EarlyOK, JobInv, EarlyInv
<1>6. FirstOK(r, marker) => FirstOK(s, marker')
  BY <1>1, <1>2 DEF FirstOK, Core, Job, JobInv, HeldInv
<1>7. TypedOK(r, marker, faults, env) => TypedOK(s, marker', faults', env)
  BY <1>1, <1>2 DEF TypedOK, Core, Job
<1> QED
  BY <1>3, <1>4, <1>5, <1>6, <1>7 DEF Good, GoodStep, r, s

\* An answer, however it came.
LEMMA AnswerGood ==
    ASSUME NEW r, NEW m, NEW f, NEW e, NEW answer \in {"continue", "abort", "unlock"},
           JobInv(r), r.at \in {"countdown", "ask"},
           r.early => answer = ClassifyKey(r.key)
    PROVE  GoodStep(r, Answered(r, answer), m, m, f, f, e)
<1> DEFINE s == Answered(r, answer)
<1>1. r \in Job
  BY DEF JobInv
<1>2. /\ s \in Job /\ Core(r, s) /\ ~s.early /\ s.marked = r.marked
      /\ s.injected = r.injected /\ s.warned = r.warned
      /\ s.answer = IF r.hops = 0 THEN answer ELSE r.answer
      /\ "inj" \in s.env <=> "inj" \in r.env
      /\ answer = "abort" => /\ s.at = "ended"
                             /\ s.out = IF r.hops = 0 THEN "refused" ELSE r.out
      /\ answer = "unlock" => s.at = "unlock" /\ s.out = r.out
      /\ answer = "continue" /\ r.is = "shim" => s.at = "mark" /\ s.out = r.out
      /\ answer = "continue" /\ r.is # "shim" =>
            s.at = "exec" /\ s.out = IF r.hops = 0 THEN "plain" ELSE r.out
  BY <1>1, AnsweredFacts
<1> HIDE DEF s
<1>3. JobInv(s)
  BY <1>1, <1>2 DEF JobInv, EarlyInv, HeldInv, Core
<1>4. Moves(r, s)
  BY <1>1, <1>2 DEF Moves, Stage, JobInv, HeldInv, Core
<1>5. EarlyOK(r, s)
  BY <1>1, <1>2 DEF EarlyOK, JobInv, EarlyInv
<1>6. FirstOK(r, m) => FirstOK(s, m)
  BY <1>1, <1>2 DEF FirstOK, Core, Job, JobInv, HeldInv
<1>7. TypedOK(r, m, f, e) => TypedOK(s, m, f, e)
  BY <1>1, <1>2 DEF TypedOK, Core, Job
<1> QED
  BY <1>3, <1>4, <1>5, <1>6, <1>7 DEF GoodStep, s

\* Every key is an answer.
LEMMA KeyAnswers ==
    \A k \in Keys \cup {"none"} : ClassifyKey(k) \in {"continue", "abort", "unlock"}
BY DEF Keys, ClassifyKey

\* The loop takes the key.
LEMMA TakeKeyGood ==
    ASSUME NEW j \in Slots, Sane(j), TakeKey(j)
    PROVE  Good(j)
<1> DEFINE r == job[j]
<1>1. /\ r \in Job /\ JobInv(r) /\ r.at = "countdown"
      /\ marker' = marker /\ faults' = faults /\ job'[j] = Answered(r, ClassifyKey(r.key))
  BY DEF Sane, TakeKey, Becomes
<1> HIDE DEF r
<1>2. ClassifyKey(r.key) \in {"continue", "abort", "unlock"}
  BY <1>1, KeyAnswers DEF Job
<1>3. GoodStep(r, Answered(r, ClassifyKey(r.key)), marker, marker, faults, faults, env)
  BY <1>1, <1>2, AnswerGood
<1> QED
  BY <1>1, <1>3 DEF Good, r

\* The prompt takes a line.
LEMMA TakeLineGood ==
    ASSUME NEW j \in Slots, NEW k \in Keys, Sane(j), TakeLine(j, k)
    PROVE  Good(j)
<1> DEFINE r == job[j]
<1>1. /\ r \in Job /\ JobInv(r) /\ r.at = "ask"
      /\ marker' = marker /\ faults' = faults /\ job'[j] = Answered(r, ClassifyKey(k))
  BY DEF Sane, TakeLine, Becomes
<1> HIDE DEF r
<1>2. ClassifyKey(k) \in {"continue", "abort", "unlock"} /\ ~r.early
  BY <1>1, KeyAnswers DEF JobInv, EarlyInv
<1>3. GoodStep(r, Answered(r, ClassifyKey(k)), marker, marker, faults, faults, env)
  BY <1>1, <1>2, AnswerGood
<1> QED
  BY <1>1, <1>3 DEF Good, r

\* The loop takes a tick: a second less, or the end.
LEMMA TakeTickGood ==
    ASSUME NEW j \in Slots, Sane(j), TakeTick(j)
    PROVE  Good(j)
<1> DEFINE r == job[j]
           s == job'[j]
           a == [r EXCEPT !.left = r.left - 1]
           b == [a EXCEPT !.tick = FALSE]
<1>1. /\ r \in Job /\ JobInv(r) /\ r.at = "countdown" /\ r.tick
      /\ marker' = marker /\ faults' = faults
      /\ s = IF r.left > 1 THEN b ELSE Answered(r, "continue")
  BY DEF Sane, TakeTick, Becomes, Job
<1> HIDE DEF r, s
<1>2. CASE r.left > 1
  <2>1. r.left - 1 \in 0 .. Delay /\ r.left \in Int
    BY <1>1, <1>2, SessionAssumption DEF Job, SessionAssumption
  <2>2. a \in Job
    BY <1>1, <2>1, Updates
  <2>3. b \in Job
    BY <2>2, Updates
  <2>4. /\ s \in Job /\ Core(r, s) /\ s.at = r.at /\ s.env = r.env /\ s.out = r.out
        /\ s.injected = r.injected /\ s.warned = r.warned
        /\ s.answer = r.answer /\ s.marked = r.marked
        /\ s.left = r.left - 1 /\ s.key = r.key /\ ~s.tick /\ s.early = r.early
    BY <1>1, <1>2, <2>3 DEF Core, Job
  <2>5. s.left > 0
    BY <1>2, <2>1, <2>4
  <2>6. JobInv(s)
    BY <1>1, <2>4, <2>5 DEF JobInv, EarlyInv, HeldInv, Core
  <2>7. Moves(r, s)
    BY <1>1, <2>4, <2>5 DEF Moves, Stage, JobInv, HeldInv, Core
  <2>8. EarlyOK(r, s)
    BY <1>1, <2>4, <2>5 DEF EarlyOK, JobInv, EarlyInv
  <2>9. FirstOK(r, marker) => FirstOK(s, marker')
    BY <1>1, <2>4, <2>5 DEF FirstOK, Core, Job, JobInv, HeldInv
  <2>10. TypedOK(r, marker, faults, env) => TypedOK(s, marker', faults', env)
    BY <1>1, <2>4, <2>5 DEF TypedOK, Core, Job
  <2> QED
    BY <2>6, <2>7, <2>8, <2>9, <2>10 DEF Good, GoodStep, r, s
<1>3. CASE ~(r.left > 1)
  <2>1. ~r.early
    BY <1>1, <1>3 DEF JobInv, EarlyInv
  <2>2. GoodStep(r, Answered(r, "continue"), marker, marker, faults, faults, env)
    BY <1>1, <2>1, AnswerGood
  <2> QED
    BY <1>1, <1>3, <2>2 DEF Good, r, s
<1> QED
  BY <1>2, <1>3

\* The unlock is over.
LEMMA AfterUnlockGood ==
    ASSUME NEW j \in Slots, NEW ok \in BOOLEAN, Sane(j), AfterUnlock(j, ok)
    PROVE  Good(j)
<1> DEFINE r == job[j]
           s == job'[j]
<1>1. /\ r \in Job /\ JobInv(r) /\ r.at = "unlock"
      /\ marker' = marker /\ faults' = faults
      /\ s = IF ok THEN Injected(r) ELSE Continued(r)
  BY DEF Sane, AfterUnlock, Becomes
<1> HIDE DEF r, s
<1>2. CASE ok
  <2>1. /\ s \in Job /\ Core(r, s) /\ s.env = r.env \cup {"inj"}
        /\ s.injected = r.injected + 1 /\ s.warned = r.warned
        /\ s.answer = r.answer /\ s.marked = r.marked
        /\ r.is = "shim" => s.at = "mark" /\ s.out = r.out /\ s.early = r.early
        /\ r.is # "shim" => /\ s.at = "exec" /\ ~s.early
                            /\ s.out = IF r.hops = 0 THEN "injected" ELSE r.out
    BY <1>1, <1>2, InjectedFacts
  <2>2. JobInv(s)
    BY <1>1, <2>1 DEF JobInv, EarlyInv, HeldInv, Core
  <2>3. Moves(r, s)
    BY <1>1, <2>1 DEF Moves, Stage, JobInv, HeldInv, Core
  <2>4. EarlyOK(r, s)
    BY <1>1, <2>1 DEF EarlyOK, JobInv, EarlyInv
  <2>5. FirstOK(r, marker) => FirstOK(s, marker')
    BY <1>1, <2>1 DEF FirstOK, Core, Job, JobInv, HeldInv
  <2>6. TypedOK(r, marker, faults, env) => TypedOK(s, marker', faults', env)
    BY <1>1, <2>1 DEF TypedOK, Core, Job
  <2> QED
    BY <2>2, <2>3, <2>4, <2>5, <2>6 DEF Good, GoodStep, r, s
<1>3. CASE ~ok
  <2>1. /\ s \in Job /\ Core(r, s)
        /\ s.injected = r.injected /\ s.warned = r.warned
        /\ s.answer = r.answer /\ s.marked = r.marked
        /\ r.is = "shim" => /\ s.at = "mark" /\ s.out = r.out /\ s.early = r.early
                            /\ s.env = r.env \cup {"warned"}
        /\ r.is # "shim" => /\ s.at = "exec" /\ ~s.early /\ s.env = r.env
                            /\ s.out = IF r.hops = 0 THEN "plain" ELSE r.out
    BY <1>1, <1>3, ContinuedFacts
  <2>2. JobInv(s)
    BY <1>1, <2>1 DEF JobInv, EarlyInv, HeldInv, Core
  <2>3. Moves(r, s)
    BY <1>1, <2>1 DEF Moves, Stage, JobInv, HeldInv, Core
  <2>4. EarlyOK(r, s)
    BY <1>1, <2>1 DEF EarlyOK, JobInv, EarlyInv
  <2>5. FirstOK(r, marker) => FirstOK(s, marker')
    BY <1>1, <2>1 DEF FirstOK, Core, Job, JobInv, HeldInv
  <2>6. TypedOK(r, marker, faults, env) => TypedOK(s, marker', faults', env)
    BY <1>1, <2>1 DEF TypedOK, Core, Job
  <2> QED
    BY <2>2, <2>3, <2>4, <2>5, <2>6 DEF Good, GoodStep, r, s
<1> QED
  BY <1>2, <1>3

\* The program meets another wrapper.
LEMMA HopGood ==
    ASSUME NEW j \in Slots, NEW how \in {"exec", "child", "script", "stripped"},
           Sane(j), Hop(j, how)
    PROVE  Good(j)
<1> DEFINE r == job[j]
           s == job'[j]
           t == how = "exec" /\ r.typed
           p == Passed(how, r.env)
           a == [r EXCEPT !.is = "shim"]
           b == [a EXCEPT !.at = "check"]
           c == [b EXCEPT !.hops = @ + 1]
           d == [c EXCEPT !.typed = t]
           q == [d EXCEPT !.env = p]
<1>1. /\ r \in Job /\ JobInv(r) /\ r.at = "running"
      /\ marker' = marker /\ faults' = faults /\ s = q
  BY DEF Sane, Hop, Becomes, Job
<1> HIDE DEF r, s
<1>2. t \in BOOLEAN /\ p \in SUBSET {"shell", "inj", "stale", "warned"}
  BY <1>1 DEF Passed, Job
<1> HIDE DEF t, p
<1>3. a \in Job
  BY <1>1, Updates
<1>4. b \in Job
  BY <1>3, Updates DEF Phases
<1>5. c \in Job
  BY <1>4, Updates
<1>6. d \in Job
  BY <1>2, <1>5, Updates
<1>7. q \in Job
  BY <1>2, <1>6, Updates
<1>8. /\ s \in Job /\ s.is = "shim" /\ s.top = r.top /\ s.first = r.first
      /\ s.hops = r.hops + 1 /\ s.at = "check" /\ s.out = r.out
      /\ s.injected = r.injected /\ s.warned = r.warned
      /\ s.answer = r.answer /\ s.marked = r.marked /\ s.early = r.early
  BY <1>1, <1>7 DEF Job
<1>9. s.hops # 0
  BY <1>1, <1>8 DEF Job
<1>10. JobInv(s)
  BY <1>1, <1>8, <1>9 DEF JobInv, EarlyInv, HeldInv, Core
<1>11. Moves(r, s)
  BY <1>1, <1>8, <1>9 DEF Moves, Stage, JobInv, HeldInv, Core
<1>12. EarlyOK(r, s)
  BY <1>1, <1>8, <1>9 DEF EarlyOK, JobInv, EarlyInv
<1>13. FirstOK(r, marker) => FirstOK(s, marker')
  BY <1>1, <1>8, <1>9 DEF FirstOK, Core, Job, JobInv, HeldInv
<1>14. TypedOK(r, marker, faults, env) => TypedOK(s, marker', faults', env)
  BY <1>1, <1>8, <1>9 DEF TypedOK, Core, Job
<1> QED
  BY <1>10, <1>11, <1>12, <1>13, <1>14 DEF Good, GoodStep, r, s

\* The program ends.
LEMMA ExitGood ==
    ASSUME NEW j \in Slots, Sane(j), Exit(j)
    PROVE  Good(j)
<1> DEFINE r == job[j]
           s == job'[j]
<1>1. /\ r \in Job /\ JobInv(r) /\ r.at \in {"running", "ended"}
      /\ marker' = marker /\ faults' = faults /\ s = Idle
  BY DEF Sane, Exit, Becomes
<1> HIDE DEF r, s
<1>2. /\ JobInv(s) /\ s.at = "idle" /\ s.out = "none" /\ s.answer = "none"
      /\ s.top = "none" /\ s.is = "none" /\ s.injected = 0 /\ s.warned = 0
      /\ ~s.first
  BY <1>1, IdleFacts DEF Idle
<1>3. r.out \in {"plain", "bypassed", "injected", "refused"}
  BY <1>1 DEF JobInv, HeldInv, Job
<1>4. JobInv(s)
  BY <1>1, <1>2, <1>3 DEF JobInv, EarlyInv, HeldInv, Core
<1>5. Moves(r, s)
  BY <1>1, <1>2, <1>3 DEF Moves, Stage, JobInv, HeldInv, Core
<1>6. EarlyOK(r, s)
  BY <1>1, <1>2, <1>3 DEF EarlyOK, JobInv, EarlyInv
<1>7. FirstOK(r, marker) => FirstOK(s, marker')
  BY <1>1, <1>2, <1>3 DEF FirstOK, Core, Job, JobInv, HeldInv
<1>8. TypedOK(r, marker, faults, env) => TypedOK(s, marker', faults', env)
  BY <1>1, <1>2, <1>3 DEF TypedOK, Core, Job
<1> QED
  BY <1>4, <1>5, <1>6, <1>7, <1>8 DEF Good, GoodStep, r, s

\* Every step of a command is a good one.
LEMMA LaunchingGood ==
    ASSUME NEW j \in Slots, Sane(j), Launching(j)
    PROVE  Good(j)
BY ShimCheckGood, NotFoundGood, RunCheckGood, FetchOkGood, FetchErrorGood, MarkGood,
   FetchFailsGood, TickFiresGood, TakeKeyGood, TakeTickGood, KeyPressedGood, TakeLineGood,
   AfterUnlockGood, HopGood, ExitGood, ExecutesGood DEF Launching

-----------------------------------------------------------------------------
(* The invariant.                                                           *)

JobsInv ==
    /\ job \in [Slots -> Job] /\ \A j \in Slots : JobInv(job[j])
    /\ faults \in Nat /\ marker \in Slots \cup {"none"}
    /\ env \subseteq {"shell", "stale", "warned"}

\* Between two lines nothing is in the foreground, and once the prompt has
\* removed the marker it comes from a command in the background.
FrontInv ==
    /\ at # "line" => job["fg"] = Idle
    /\ at \notin {"line", "prompt"} => marker # "fg"
    /\ FirstOK(job["fg"], marker)
    /\ TypedOK(job["fg"], marker, faults, env)

\* The table agrees with the wrappers, or the helper is about to tell the shell.
HashInv ==
    /\ ~unhashed => \/ \A c \in DOMAIN hash : (hash[c] = "wrap") = (c \in wrappers)
                    \/ at \in {"stamp", "after"} /\ helper.changed
    /\ at \in {"load", "reconcile"} => ~helper.changed
    /\ helper \in [cur : {helper.cur}, content : {helper.content}, changed : BOOLEAN]

SessionInv == JobsInv /\ FrontInv /\ HashInv

\* A step of a command leaves the rest of the session alone.
LEMMA LaunchingFrame ==
    ASSUME NEW j \in Slots, job \in [Slots -> Job], Launching(j)
    PROVE  /\ Others /\ job[j].at # "idle"
           /\ \E s : Becomes(j, s)
           /\ marker' \in {marker, j} /\ faults' \in {faults, faults + 1}
           /\ faults' # faults => faults < MaxFaults
<1>1. CASE ShimCheck(j) \/ NotFound(j) \/ RunCheck(j) \/ FetchOk(j) \/ FetchError(j) \/ Exit(j)
           \/ Executes(j) \/ ExecFails(j)
  BY <1>1 DEF ShimCheck, NotFound, RunCheck, FetchOk, FetchError, Exit, Executes, ExecFails,
     Step, Fault
<1>2. CASE Mark(j)
  BY <1>2 DEF Mark, Step, Fault, NoFault
<1>3. CASE \E t \in {"raw", "cooked", "none"} : FetchFails(j, t)
  BY <1>3 DEF FetchFails, Step
<1>4. CASE TickFires(j) \/ TakeKey(j) \/ TakeTick(j)
  BY <1>4 DEF TickFires, TakeKey, TakeTick
<1>5. CASE \E k \in Keys : KeyPressed(j, k) \/ TakeLine(j, k)
  BY <1>5 DEF KeyPressed, TakeLine
<1>6. CASE \E ok \in BOOLEAN : AfterUnlock(j, ok)
  BY <1>6 DEF AfterUnlock
<1>7. CASE \E how \in {"exec", "child", "script", "stripped"} : Hop(j, how)
  BY <1>7 DEF Hop
<1> QED
  BY <1>1, <1>2, <1>3, <1>4, <1>5, <1>6, <1>7 DEF Launching

\* A free slot meets the conditions on the foreground.
LEMMA IdleFront == \A m, f, e : FirstOK(Idle, m) /\ TypedOK(Idle, m, f, e)
BY DEF FirstOK, TypedOK, Idle

\* A command that starts meets the invariant.
LEMMA ProgramGood ==
    ASSUME NEW is \in {"shim", "run", "real"}, NEW first \in BOOLEAN,
           env \subseteq {"shell", "stale", "warned"}
    PROVE  LET s == Program(is, first) IN
           /\ JobInv(s) /\ Moves(Idle, s) /\ EarlyOK(Idle, s)
           /\ FirstOK(s, marker)
           /\ (first => marker # "fg") => TypedOK(s, marker, faults, env)
<1> DEFINE s == Program(is, first)
<1>1. Started(s, is, first)
  BY ProgramFacts
<1> HIDE DEF s
<1>2. JobInv(s)
  BY <1>1 DEF Started, JobInv, EarlyInv, HeldInv
<1>3. Moves(Idle, s) /\ EarlyOK(Idle, s)
  BY <1>1 DEF Started, Moves, Stage, EarlyOK, Idle
<1>4. FirstOK(s, marker)
  BY <1>1 DEF Started, FirstOK
<1>5. (first => marker # "fg") => TypedOK(s, marker, faults, env)
  BY <1>1 DEF Started, TypedOK
<1> QED
  BY <1>2, <1>3, <1>4, <1>5 DEF s

\* A command that starts, in either slot, is a fresh program.
LEMMA StartOneFacts ==
    ASSUME NEW first \in BOOLEAN, StartOne(first)
    PROVE  \/ job' = job
           \/ \E is \in {"shim", "run", "real"} : Becomes("fg", Program(is, first))
BY DEF StartOne, StartBare, StartFile, Becomes

\* The session starts in the invariant.
LEMMA SessionInit == Init => SessionInv
<1> SUFFICES ASSUME Init PROVE SessionInv
  OBVIOUS
<1>1. job = [j \in Slots |-> Idle] /\ \A j \in Slots : job[j] = Idle
  BY DEF Init
<1>2. JobsInv
  <2>1. Idle \in Job
    BY IdleFacts DEF JobInv
  <2>2. job \in [Slots -> Job] /\ \A j \in Slots : JobInv(job[j])
    BY <1>1, <2>1, IdleFacts
  <2>3. env \subseteq {"shell", "stale", "warned"}
    BY SessionAssumption DEF Init, SessionAssumption
  <2> QED
    BY <2>2, <2>3 DEF JobsInv, Init
<1>3. FrontInv
  BY <1>1, IdleFront DEF FrontInv, Init, Slots
<1>4. HashInv
  BY DEF HashInv, Init, NoHelper
<1> QED
  BY <1>2, <1>3, <1>4 DEF SessionInv

\* A step of the shell that starts no command.
LEMMA QuietStep ==
    ASSUME SessionInv, UNCHANGED <<job, env>>, marker' \in {marker, "none"},
           faults' \in {faults, faults + 1}, at' # "line", HashInv',
           at = "line" => job["fg"].at = "idle",
           at \in {"line", "prompt"} /\ at' # "prompt" => marker' # "fg"
    PROVE  SessionInv'
<1>1. JobsInv'
  BY DEF SessionInv, JobsInv
<1>2. job["fg"] = Idle
  BY DEF SessionInv, FrontInv, JobsInv, JobInv, HeldInv, Slots
<1>3. at' \notin {"line", "prompt"} => marker' # "fg"
  BY DEF SessionInv, FrontInv
<1>4. FrontInv'
  BY <1>2, <1>3, IdleFront DEF FrontInv
<1> QED
  BY <1>1, <1>4 DEF SessionInv

\* The prompt and its helper start no command.
LEMMA PromptingStep ==
    ASSUME SessionInv, Prompting
    PROVE  SessionInv' /\ job' = job
<1>1. CASE Prompt \/ Stat
  <2>1. HashInv'
    BY <1>1 DEF SessionInv, HashInv, Prompt, Stat, NoHelper, checkVars
  <2> QED
    BY <1>1, <2>1, QuietStep DEF Prompt, Stat, checkVars
<1>2. CASE Load \/ LoadBroken \/ Stamp
  <2>1. ASSUME Load PROVE HashInv'
    <3>1. at = "load" /\ at' = "reconcile" /\ UNCHANGED <<hash, wrappers, unhashed>>
          /\ helper' = [helper EXCEPT !.content = cfg.content]
      BY <2>1 DEF Load
    <3>2. helper'.changed = helper.changed
          /\ helper' \in [cur : {helper'.cur}, content : {helper'.content}, changed : BOOLEAN]
      BY <3>1 DEF SessionInv, HashInv
    <3> QED
      BY <3>1, <3>2 DEF SessionInv, HashInv
  <2>2. ASSUME LoadBroken \/ Stamp PROVE HashInv'
    BY <2>2 DEF SessionInv, HashInv, LoadBroken, Stamp, checkVars
  <2>3. HashInv'
    BY <1>2, <2>1, <2>2
  <2> QED
    BY <1>2, <2>3, QuietStep DEF Load, LoadBroken, Stamp, Fault, NoFault
<1>3. CASE After
  <2>1. HashInv'
    BY <1>3 DEF SessionInv, HashInv, After, NoHelper, dirVars
  <2> QED
    BY <1>3, <2>1, QuietStep DEF After, dirVars
<1>4. ASSUME NEW ws \in SUBSET Cmds, Reconcile(ws) \/ ReconcileFails(ws)
      PROVE  SessionInv' /\ job' = job
  <2>1. ASSUME Reconcile(ws) PROVE HashInv'
    <3>1. at = "reconcile" /\ at' = "stamp" /\ UNCHANGED <<hash, unhashed>>
          /\ helper' = [helper EXCEPT !.changed = wrappers # wrappers']
      BY <2>1 DEF Reconcile
    <3>2. helper'.changed = (wrappers # wrappers')
          /\ helper' \in [cur : {helper'.cur}, content : {helper'.content}, changed : BOOLEAN]
      BY <3>1 DEF SessionInv, HashInv
    <3> QED
      BY <3>1, <3>2 DEF SessionInv, HashInv
  <2>2. ASSUME ReconcileFails(ws) PROVE HashInv'
    BY <2>2 DEF SessionInv, HashInv, ReconcileFails
  <2>3. HashInv'
    BY <1>4, <2>1, <2>2
  <2> QED
    BY <1>4, <2>3, QuietStep DEF Reconcile, ReconcileFails, Fault, NoFault
<1> QED
  BY <1>1, <1>2, <1>3, <1>4 DEF Prompting

\* Nor does the world outside.
LEMMA OutsideStep ==
    ASSUME SessionInv, Outside
    PROVE  SessionInv' /\ job' = job
<1>1. HashInv'
  BY DEF SessionInv, HashInv, Outside, Second, EditConfig, shellVars, checkVars
<1> QED
  BY <1>1, QuietStep DEF Outside, Second, EditConfig, shellVars

\* The hash table is filled from what the PATH holds.
LEMMA StartHash ==
    ASSUME SessionInv, NEW first \in BOOLEAN, StartOne(first), InShell,
           at \in {"ready", "line"}, at' = "line"
    PROVE  HashInv'
<1>1. UNCHANGED <<wrappers, unhashed, helper>>
  BY DEF InShell, dirVars, checkVars
<1>2. CASE UNCHANGED hash
  BY <1>1, <1>2 DEF SessionInv, HashInv
<1>3. ASSUME NEW cmd \in Cmds,
             hash' = [c \in DOMAIN hash \cup {cmd} |-> IF c = cmd THEN Found(cmd) ELSE hash[c]]
      PROVE  HashInv'
  BY <1>1, <1>3 DEF SessionInv, HashInv, Found
<1> QED
  BY <1>2, <1>3 DEF StartOne, StartBare, StartFile

\* A command starts in a free slot.
LEMMA StartStep ==
    ASSUME SessionInv, NEW j \in Slots, NEW is \in {"shim", "run", "real"}, NEW first \in BOOLEAN,
           job[j].at = "idle", Becomes(j, Program(is, first)), InShell
    PROVE  /\ JobsInv' /\ Moves(job[j], job'[j]) /\ EarlyOK(job[j], job'[j])
           /\ FirstOK(job'[j], marker')
           /\ (first => marker # "fg") => TypedOK(job'[j], marker', faults', env')
<1>1. job[j] = Idle /\ job \in [Slots -> Job] /\ env \subseteq {"shell", "stale", "warned"}
  BY DEF SessionInv, JobsInv, JobInv, HeldInv
<1>2. /\ job' = [job EXCEPT ![j] = Program(is, first)] /\ job'[j] = Program(is, first)
      /\ marker' = marker /\ env' = env /\ faults' = faults
  BY <1>1 DEF Becomes, InShell, dirVars
<1>3. /\ JobInv(job'[j]) /\ Moves(Idle, job'[j]) /\ EarlyOK(Idle, job'[j])
      /\ FirstOK(job'[j], marker)
      /\ (first => marker # "fg") => TypedOK(job'[j], marker, faults, env)
  BY <1>1, <1>2, ProgramGood
<1>4. job'[j] \in Job
  BY <1>3 DEF JobInv
<1>5. JobsInv'
  <2>1. job' \in [Slots -> Job]
    BY <1>1, <1>2, <1>4
  <2>2. \A i \in Slots : JobInv(job'[i])
    BY <1>1, <1>2, <1>3 DEF SessionInv, JobsInv
  <2> QED
    BY <1>2, <2>1, <2>2 DEF SessionInv, JobsInv
<1> QED
  BY <1>1, <1>2, <1>3, <1>5

\* A line that is typed starts at most one command.
LEMMA TypingStep ==
    ASSUME SessionInv, Typing
    PROVE  /\ SessionInv'
           /\ \/ job' = job
              \/ \E j \in Slots : /\ Moves(job[j], job'[j]) /\ EarlyOK(job[j], job'[j])
                                  /\ \E s : Becomes(j, s)
<1>1. CASE EndLine
  <2>1. HashInv'
    BY <1>1 DEF SessionInv, HashInv, EndLine, dirVars, checkVars
  <2> QED
    BY <1>1, <2>1, QuietStep DEF EndLine, dirVars
<1>2. CASE TypeEnter \/ \E d \in Dirs : TypeCd(d)
  <2>1. HashInv'
    BY <1>2 DEF SessionInv, HashInv, TypeEnter, TypeCd, dirVars, checkVars
  <2> QED
    BY <1>2, <2>1, QuietStep DEF TypeEnter, TypeCd, dirVars
<1>3. ASSUME NEW first \in BOOLEAN, StartOne(first), InShell, at' = "line",
             at \in {"ready", "line"}, job["fg"].at = "idle", first => marker # "fg"
      PROVE  /\ SessionInv'
             /\ job' = job \/ \E j \in Slots : /\ Moves(job[j], job'[j])
                                               /\ EarlyOK(job[j], job'[j])
                                               /\ \E s : Becomes(j, s)
  <2>1. HashInv'
    BY <1>3, StartHash
  <2>2. CASE job' = job
    <3>1. JobsInv'
      BY <1>3, <2>2 DEF InShell, dirVars, SessionInv, JobsInv
    <3>2. job'["fg"] = Idle
      BY <1>3, <2>2 DEF SessionInv, JobsInv, JobInv, HeldInv, Slots
    <3>3. FrontInv'
      BY <1>3, <3>2, IdleFront DEF FrontInv
    <3> QED
      BY <2>1, <2>2, <3>1, <3>3 DEF SessionInv
  <2>3. ASSUME NEW is \in {"shim", "run", "real"}, Becomes("fg", Program(is, first))
        PROVE  /\ SessionInv'
               /\ \E j \in Slots : /\ Moves(job[j], job'[j]) /\ EarlyOK(job[j], job'[j])
                                   /\ \E s : Becomes(j, s)
    <3>1. "fg" \in Slots
      BY DEF Slots
    <3>2. /\ JobsInv' /\ Moves(job["fg"], job'["fg"]) /\ EarlyOK(job["fg"], job'["fg"])
          /\ FirstOK(job'["fg"], marker') /\ TypedOK(job'["fg"], marker', faults', env')
      BY <1>3, <2>3, <3>1, StartStep
    <3>3. FrontInv'
      BY <1>3, <3>2 DEF FrontInv
    <3> QED
      BY <2>1, <2>3, <3>1, <3>2, <3>3 DEF SessionInv
  <2> QED
    BY <1>3, <2>2, <2>3, StartOneFacts
<1>4. CASE TypeLine
  <2>1. /\ StartOne(TRUE) /\ InShell /\ at' = "line" /\ at = "ready"
    BY <1>4 DEF TypeLine
  <2>2. job["fg"] = Idle /\ marker # "fg"
    BY <2>1 DEF SessionInv, FrontInv
  <2>3. job["fg"].at = "idle"
    BY <2>2 DEF Idle
  <2> QED
    BY <1>3, <2>1, <2>2, <2>3
<1>5. CASE NextOnLine
  <2>1. StartOne(FALSE) /\ InShell /\ at = "line" /\ at' = "line" /\ job["fg"].at = "idle"
    BY <1>5 DEF NextOnLine
  <2> QED
    BY <2>1, <1>3
<1>6. ASSUME NEW cmd \in Cmds, TypeBackground(cmd)
      PROVE  /\ SessionInv'
             /\ \E j \in Slots : /\ Moves(job[j], job'[j]) /\ EarlyOK(job[j], job'[j])
                                 /\ \E s : Becomes(j, s)
  <2>1. /\ "bg" \in Slots /\ Becomes("bg", Program("shim", TRUE)) /\ InShell
        /\ job["bg"].at = "idle" /\ at = "ready" /\ at' = "prompt" /\ UNCHANGED hash
    BY <1>6 DEF TypeBackground, Becomes, Slots
  <2>2. JobsInv' /\ Moves(job["bg"], job'["bg"]) /\ EarlyOK(job["bg"], job'["bg"])
    BY <2>1, StartStep
  <2>3. HashInv'
    BY <2>1 DEF SessionInv, HashInv, InShell, dirVars, checkVars
  <2>4. job'["fg"] = Idle
    BY <2>1 DEF SessionInv, FrontInv, JobsInv, Becomes, Slots
  <2>5. FrontInv'
    BY <2>1, <2>4, IdleFront DEF FrontInv
  <2> QED
    BY <2>1, <2>2, <2>3, <2>5 DEF SessionInv
<1> QED
  BY <1>1, <1>2, <1>4, <1>5, <1>6 DEF Typing

\* A step of a command keeps the invariant of the session.
LEMMA LaunchingStep ==
    ASSUME SessionInv, NEW j \in Slots, Launching(j)
    PROVE  /\ SessionInv' /\ Moves(job[j], job'[j]) /\ EarlyOK(job[j], job'[j])
           /\ \E s : Becomes(j, s)
<1>1. Sane(j) /\ job \in [Slots -> Job]
  BY DEF SessionInv, JobsInv, Sane
<1>2. Good(j)
  BY <1>1, LaunchingGood
<1>3. /\ Others /\ job[j].at # "idle" /\ \E s : Becomes(j, s)
      /\ marker' \in {marker, j} /\ faults' \in {faults, faults + 1}
  BY <1>1, LaunchingFrame
<1>4. env' = env /\ at' = at /\ HashInv'
  BY <1>3 DEF Others, shellVars, checkVars, SessionInv, HashInv
<1>5. /\ \A i \in Slots \ {j} : job'[i] = job[i]
      /\ JobInv(job'[j]) /\ job' \in [Slots -> Job]
  <2>1. PICK s : Becomes(j, s)
    BY <1>3
  <2>2. job'[j] = s /\ job' = [job EXCEPT ![j] = s]
    BY <1>1, <2>1 DEF Becomes
  <2>3. JobInv(job'[j]) /\ job'[j] \in Job
    BY <1>2 DEF Good, GoodStep, JobInv
  <2> QED
    BY <1>1, <2>2, <2>3
<1>6. JobsInv'
  BY <1>3, <1>4, <1>5 DEF SessionInv, JobsInv
<1>7. CASE j = "fg"
  <2>1. at = "line"
    BY <1>3, <1>7 DEF SessionInv, FrontInv, Idle
  <2>2. FrontInv'
    BY <1>2, <1>4, <1>7, <2>1 DEF SessionInv, FrontInv, Good, GoodStep
  <2> QED
    BY <1>2, <1>3, <1>4, <1>6, <2>2 DEF SessionInv, Good, GoodStep
<1>8. CASE j = "bg"
  <2>1. job'["fg"] = job["fg"] /\ marker' \in {marker, "bg"} /\ faults \in Nat
    BY <1>3, <1>5, <1>8 DEF Slots, SessionInv, JobsInv
  <2>2. FirstOK(job["fg"], marker')
    BY <2>1 DEF SessionInv, FrontInv, FirstOK
  <2>3. TypedOK(job["fg"], marker', faults', env)
    BY <1>3, <2>1 DEF SessionInv, FrontInv, TypedOK
  <2>4. FrontInv'
    BY <1>4, <2>1, <2>2, <2>3 DEF SessionInv, FrontInv
  <2> QED
    BY <1>2, <1>3, <1>4, <1>6, <2>4 DEF SessionInv, Good, GoodStep
<1> QED
  BY <1>7, <1>8 DEF Slots

\* What a step of Next means for the two commands.
LEMMA SessionStep ==
    ASSUME SessionInv, [Next]_vars
    PROVE  /\ SessionInv'
           /\ \/ job' = job
              \/ \E j \in Slots : /\ Moves(job[j], job'[j]) /\ EarlyOK(job[j], job'[j])
                                  /\ \E s : Becomes(j, s)
<1>1. CASE UNCHANGED vars
  <2>1. JobsInv' /\ FrontInv' /\ HashInv'
    BY <1>1 DEF vars, SessionInv, JobsInv, FrontInv, HashInv
  <2> QED
    BY <1>1, <2>1 DEF vars, SessionInv
<1> QED
  BY <1>1, PromptingStep, TypingStep, OutsideStep, LaunchingStep DEF Next

\* The invariant of the commands, the markers and the hash table holds.
THEOREM SessionInvariant == Spec => []SessionInv
<1>1. Init => SessionInv
  BY SessionInit
<1>2. SessionInv /\ [Next]_vars => SessionInv'
  BY SessionStep
<1> QED
  BY <1>1, <1>2, PTL DEF Spec

-----------------------------------------------------------------------------
(* The hook: the wrappers follow the config.                                 *)

HookType ==
    /\ cfg \in [content : Configs \cup {Broken}, ns : 1 .. MaxEdits + 1]
    /\ at \in {"prompt", "stat", "load", "reconcile", "stamp", "after", "ready", "line"}
    /\ pwd \in Dirs /\ wrappers \subseteq Cmds /\ faults \in 0 .. MaxFaults
    /\ DOMAIN hash \subseteq Cmds /\ \A c \in DOMAIN hash : hash[c] \in {"wrap", "real"}
    /\ stamp \in [value : Nat, fresh : BOOLEAN, old : BOOLEAN]
    /\ helper \in [cur : Nat, content : Configs \cup {Broken}, changed : BOOLEAN]
    /\ moved \in BOOLEAN /\ failed \in BOOLEAN /\ unhashed \in BOOLEAN
    /\ at \in {"reconcile", "stamp"} => helper.content \in Configs

\* The stamp is never ahead of the config, nor of the helper; what the helper
\* has read is the config of the time it took, or of now, if there was no edit
\* since.
TimeInv ==
    /\ stamp.value <= cfg.ns
    /\ at \in {"load", "reconcile", "stamp"} => stamp.value <= helper.cur /\ helper.cur <= cfg.ns
    /\ at \in {"reconcile", "stamp"} /\ (~moved \/ helper.cur = cfg.ns) =>
          helper.content = cfg.content

InSync == wrappers = Wanted[cfg.content][pwd] /\ sidecar = Anchored[cfg.content]

\* The shell has read the anchors that the helper wrote.  A stamp of the config's
\* time vouches for wrappers and anchors; so does a config that was read and not
\* edited since.
SyncInv ==
    /\ at = "ready" => pwd = lastPwd
    /\ at \in {"prompt", "stat", "load", "ready", "line"} => anchors = sidecar
    /\ ~failed /\ cfg.content # Broken =>
         /\ at \in {"prompt", "stat", "ready", "line"} /\ pwd = lastPwd /\ stamp.value = cfg.ns
            => InSync
         /\ at \in {"prompt", "ready", "line"} /\ pwd = lastPwd /\ ~moved /\ stamp.value # 0
            => InSync
         /\ at = "after" /\ (stamp.value = cfg.ns \/ ~moved) => InSync
         /\ at = "ready" /\ ~moved => InSync

HookInv == HookType /\ TimeInv /\ SyncInv

\* The table of wanted wrappers.
LEMMA WantedFacts ==
    \A c \in Configs, d \in Dirs : Wanted[c][d] = CwdCommands(c, d) /\ Wanted[c][d] \subseteq Cmds
<1>1. \A c \in Configs, d \in Dirs : Wanted[c][d] = CwdCommands(c, d)
  BY DEF Wanted
<1>2. \A c \in Configs, d \in Dirs : CwdCommands(c, d) \subseteq Cmds
  BY SessionAssumption DEF SessionAssumption
<1> QED
  BY <1>1, <1>2, Zenon

\* The hook starts in its invariant.
LEMMA HookInit == Init => HookInv
<1> SUFFICES ASSUME Init PROVE HookInv
  OBVIOUS
<1>1. HookType
  <2>1. cfg \in [content : Configs \cup {Broken}, ns : 1 .. MaxEdits + 1] /\ pwd \in Dirs
        /\ faults \in 0 .. MaxFaults
    BY SessionAssumption DEF Init, SessionAssumption
  <2>2. stamp \in [value : Nat, fresh : BOOLEAN, old : BOOLEAN]
    BY DEF Init, NoStamp
  <2>3. helper \in [cur : Nat, content : Configs \cup {Broken}, changed : BOOLEAN]
    BY DEF Init, NoHelper
  <2>4. DOMAIN hash = {} /\ at = "prompt" /\ wrappers = {}
    BY DEF Init
  <2>5. moved \in BOOLEAN /\ failed \in BOOLEAN /\ unhashed \in BOOLEAN
    BY DEF Init
  <2> QED
    BY <2>1, <2>2, <2>3, <2>4, <2>5 DEF HookType
<1>2. TimeInv /\ SyncInv
  BY DEF Init, TimeInv, SyncInv, NoStamp
<1> QED
  BY <1>1, <1>2 DEF HookInv

\* Steps that leave the config, the helper and the shell's directory alone.
LEMMA HookQuiet ==
    ASSUME HookInv, UNCHANGED <<cfg, lastPwd, anchors, wrappers, sidecar, stamp, helper, moved, failed,
                     unhashed>>,
           HookType', UNCHANGED pwd,
           at' = at \/ (at \in {"ready", "line"} /\ at' \in {"prompt", "line"})
    PROVE  HookInv'
<1>1. TimeInv'
  BY DEF HookInv, TimeInv
<1>2. SyncInv'
  BY DEF HookInv, SyncInv, InSync
<1> QED
  BY <1>1, <1>2 DEF HookInv

\* A line that is typed leaves the wrappers and their stamp alone.
LEMMA HookTyping ==
    ASSUME HookInv, Typing
    PROVE  HookInv'
<1>1. CASE EndLine \/ TypeEnter
  <2>1. HookType'
    BY <1>1 DEF HookInv, HookType, EndLine, TypeEnter, cfgVars, dirVars, checkVars
  <2> QED
    BY <1>1, <2>1, HookQuiet DEF EndLine, TypeEnter, cfgVars, dirVars, checkVars
<1>2. ASSUME NEW d \in Dirs, TypeCd(d)
      PROVE  HookInv'
  <2>1. HookType'
    BY <1>2 DEF HookInv, HookType, TypeCd, cfgVars, dirVars, checkVars
  <2>2. TimeInv'
    BY <1>2 DEF HookInv, TimeInv, TypeCd, cfgVars, dirVars, checkVars
  <2>3. SyncInv'
    BY <1>2 DEF HookInv, SyncInv, InSync, TypeCd, cfgVars, dirVars, checkVars
  <2> QED
    BY <2>1, <2>2, <2>3 DEF HookInv
<1>3. ASSUME NEW cmd \in Cmds, TypeBackground(cmd)
      PROVE  HookInv'
  <2>1. HookType'
    BY <1>3 DEF HookInv, HookType, TypeBackground, InShell, cfgVars, dirVars, checkVars
  <2> QED
    BY <1>3, <2>1, HookQuiet DEF TypeBackground, InShell, cfgVars, dirVars, checkVars
<1>4. ASSUME NEW first \in BOOLEAN, StartOne(first), InShell, at' = "line",
             at \in {"ready", "line"}
      PROVE  HookInv'
  <2>1. DOMAIN hash' \subseteq Cmds /\ \A c \in DOMAIN hash' : hash'[c] \in {"wrap", "real"}
    <3>1. CASE UNCHANGED hash
      BY <3>1 DEF HookInv, HookType
    <3>2. ASSUME NEW cmd \in Cmds, hash' = [c \in DOMAIN hash \cup {cmd} |->
                                              IF c = cmd THEN Found(cmd) ELSE hash[c]]
          PROVE  DOMAIN hash' \subseteq Cmds /\ \A c \in DOMAIN hash' : hash'[c] \in {"wrap", "real"}
      BY <3>2 DEF HookInv, HookType, Found
    <3> QED
      BY <1>4, <3>1, <3>2 DEF StartOne, StartBare, StartFile
  <2>2. HookType'
    BY <1>4, <2>1 DEF HookInv, HookType, InShell, cfgVars, dirVars, checkVars
  <2> QED
    BY <1>4, <2>2, HookQuiet DEF InShell, cfgVars, dirVars, checkVars
<1> QED
  BY <1>1, <1>2, <1>3, <1>4 DEF Typing, TypeLine, NextOnLine

\* An edit outdates the stamp.
LEMMA HookOutside ==
    ASSUME HookInv, Outside
    PROVE  HookInv'
<1>1. CASE Second
  <2>1. HookType'
    BY <1>1 DEF HookInv, HookType, Second, cfgVars, shellVars, checkVars
  <2>2. stamp'.value = stamp.value /\ stamp'.old = stamp.old
    BY <1>1 DEF HookInv, HookType, Second
  <2>3. TimeInv' /\ SyncInv'
    BY <1>1, <2>2 DEF HookInv, TimeInv, SyncInv, InSync, Second, cfgVars, shellVars, checkVars
  <2> QED
    BY <2>1, <2>3 DEF HookInv
<1>2. ASSUME NEW c \in Configs \cup {Broken}, EditConfig(c)
      PROVE  HookInv'
  <2>1. /\ cfg'.ns = cfg.ns + 1 /\ cfg.ns \in Nat /\ moved' /\ stamp'.value = stamp.value
        /\ cfg' \in [content : Configs \cup {Broken}, ns : 1 .. MaxEdits + 1]
        /\ stamp' \in [value : Nat, fresh : BOOLEAN, old : BOOLEAN]
        /\ stamp.value \in Nat /\ helper.cur \in Nat
    <3>1. cfg.ns \in Nat /\ cfg.ns <= MaxEdits /\ stamp.value \in Nat /\ helper.cur \in Nat
      BY <1>2, SessionAssumption DEF HookInv, HookType, EditConfig, SessionAssumption
    <3>2. cfg' \in [content : Configs \cup {Broken}, ns : 1 .. MaxEdits + 1]
          /\ cfg'.ns = cfg.ns + 1 /\ moved'
      BY <1>2, <3>1, SessionAssumption DEF EditConfig, SessionAssumption
    <3>3. /\ stamp' \in [value : Nat, fresh : BOOLEAN, old : BOOLEAN]
          /\ stamp'.value = stamp.value
      BY <1>2 DEF HookInv, HookType, EditConfig
    <3> QED
      BY <3>1, <3>2, <3>3
  <2>2. HookType'
    BY <1>2, <2>1 DEF HookInv, HookType, EditConfig, shellVars, checkVars
  <2>3. TimeInv'
    BY <1>2, <2>1 DEF HookInv, TimeInv, EditConfig, shellVars, checkVars
  <2>4. SyncInv'
    BY <1>2, <2>1 DEF HookInv, TimeInv, SyncInv, EditConfig, shellVars
  <2> QED
    BY <2>2, <2>3, <2>4 DEF HookInv
<1> QED
  BY <1>1, <1>2 DEF Outside

\* The helper stamps what it has done, with the time it took before it read.
LEMMA HookPrompting ==
    ASSUME HookInv, Prompting
    PROVE  HookInv'
<1> USE DEF HookInv
<1>1. CASE Prompt
  <2>1. HookType'
    BY <1>1 DEF HookType, Prompt, checkVars
  <2>2. TimeInv'
    BY <1>1 DEF TimeInv, Prompt, checkVars
  <2>3. SyncInv'
    BY <1>1 DEF SyncInv, InSync, UpToDate, Prompt, checkVars
  <2> QED
    BY <2>1, <2>2, <2>3
<1>2. CASE Stat
  <2>1. helper' \in [cur : Nat, content : Configs \cup {Broken}, changed : BOOLEAN]
        /\ helper'.cur = cfg.ns /\ cfg.ns \in Nat /\ stamp.value \in Nat
    <3>1. cfg.ns \in Nat /\ stamp.value \in Nat
      BY SessionAssumption DEF HookType, SessionAssumption
    <3> QED
      BY <1>2, <3>1 DEF Stat, NoHelper
  <2>2. HookType'
    BY <1>2, <2>1 DEF HookType, Stat, cfgVars
  <2>3. TimeInv'
    BY <1>2, <2>1 DEF TimeInv, Stat, cfgVars
  <2>4. SyncInv'
    BY <1>2 DEF SyncInv, InSync, Stat, cfgVars
  <2> QED
    BY <2>2, <2>3, <2>4
<1>3. CASE Load
  <2>1. helper' \in [cur : Nat, content : Configs \cup {Broken}, changed : BOOLEAN]
        /\ helper'.cur = helper.cur /\ helper'.content = cfg.content /\ cfg.content \in Configs
    BY <1>3 DEF HookType, Load
  <2>2. faults' \in 0 .. MaxFaults
    BY <1>3, SessionAssumption DEF HookType, Load, Fault, NoFault, SessionAssumption
  <2>3. HookType'
    BY <1>3, <2>1, <2>2 DEF HookType, Load, cfgVars
  <2>4. TimeInv' /\ SyncInv'
    BY <1>3, <2>1 DEF TimeInv, SyncInv, Load, cfgVars
  <2> QED
    BY <2>3, <2>4
<1>4. CASE LoadBroken
  <2>1. HookType'
    BY <1>4 DEF HookType, LoadBroken, cfgVars, checkVars
  <2>2. TimeInv' /\ SyncInv'
    BY <1>4 DEF TimeInv, SyncInv, LoadBroken, cfgVars, checkVars
  <2> QED
    BY <2>1, <2>2
<1>5. ASSUME NEW kept \in SUBSET Cmds, Reconcile(kept)
      PROVE  HookInv'
  <2>1. helper' \in [cur : Nat, content : Configs \cup {Broken}, changed : BOOLEAN]
        /\ helper'.cur = helper.cur /\ helper'.content = helper.content
    BY <1>5 DEF HookType, Reconcile
  <2>2. faults' \in 0 .. MaxFaults
    BY <1>5, SessionAssumption DEF HookType, Reconcile, Fault, NoFault, SessionAssumption
  <2>3. wrappers' \subseteq Cmds
    BY <1>5, WantedFacts DEF HookType, Reconcile, Desired
  <2>4. HookType'
    BY <1>5, <2>1, <2>2, <2>3 DEF HookType, Reconcile, cfgVars
  <2>5. TimeInv' /\ SyncInv'
    BY <1>5, <2>1 DEF TimeInv, SyncInv, Reconcile, cfgVars
  <2> QED
    BY <2>4, <2>5
<1>6. ASSUME NEW ws \in SUBSET Cmds, ReconcileFails(ws)
      PROVE  HookInv'
  <2>1. faults' \in 0 .. MaxFaults
    BY <1>6, SessionAssumption DEF HookType, ReconcileFails, Fault, SessionAssumption
  <2>2. HookType'
    BY <1>6, <2>1 DEF HookType, ReconcileFails, cfgVars
  <2>3. TimeInv' /\ SyncInv'
    BY <1>6 DEF TimeInv, SyncInv, ReconcileFails, cfgVars
  <2> QED
    BY <2>2, <2>3
<1>7. CASE Stamp
  <2>1. /\ stamp' \in [value : Nat, fresh : BOOLEAN, old : BOOLEAN]
        /\ \/ stamp'.value = helper.cur /\ ~stamp'.old
           \/ stamp' = stamp
    <3>1. helper.cur \in Nat /\ stamp \in [value : Nat, fresh : BOOLEAN, old : BOOLEAN]
      BY DEF HookType
    <3>2. CASE stamp' = [value |-> helper.cur, fresh |-> TRUE, old |-> FALSE]
      BY <3>1, <3>2
    <3>3. CASE stamp' = stamp
      BY <3>1, <3>3
    <3> QED
      BY <1>7, <3>2, <3>3 DEF Stamp
  <2>2. faults' \in 0 .. MaxFaults
    BY <1>7, SessionAssumption DEF HookType, Stamp, Fault, NoFault, SessionAssumption
  <2>3. HookType'
    BY <1>7, <2>1, <2>2 DEF HookType, Stamp, cfgVars
  <2>4. TimeInv'
    BY <1>7, <2>1 DEF TimeInv, Stamp, cfgVars
  <2>5. SyncInv'
    <3>1. SUFFICES ASSUME ~failed', stamp'.value = cfg.ns \/ ~moved
                   PROVE  InSync
      BY <1>7 DEF SyncInv, InSync, Stamp, cfgVars
    <3>2. helper.cur = cfg.ns \/ ~moved
      BY <1>7, <2>1, <3>1 DEF TimeInv, HookType, Stamp
    <3>3. helper.content = cfg.content /\ wrappers = Desired /\ sidecar = Anchored[helper.content]
      BY <1>7, <3>1, <3>2 DEF TimeInv, Stamp, InLine
    <3> QED
      BY <3>3 DEF InSync, Desired
  <2> QED
    BY <2>3, <2>4, <2>5
<1>8. CASE After
  <2>1. helper' \in [cur : Nat, content : Configs \cup {Broken}, changed : BOOLEAN]
    BY <1>8 DEF After, NoHelper
  <2>2. DOMAIN hash' \subseteq Cmds /\ \A c \in DOMAIN hash' : hash'[c] \in {"wrap", "real"}
    BY <1>8 DEF HookType, After
  <2>3. HookType'
    BY <1>8, <2>1, <2>2 DEF HookType, After, cfgVars, dirVars
  <2>4. TimeInv'
    BY <1>8 DEF TimeInv, After, cfgVars, dirVars
  <2>5. SyncInv'
    BY <1>8 DEF SyncInv, InSync, After, cfgVars, dirVars
  <2> QED
    BY <2>3, <2>4, <2>5
<1> QED
  BY <1>1, <1>2, <1>3, <1>4, <1>5, <1>6, <1>7, <1>8 DEF Prompting

\* A step of a command leaves the hook alone.
LEMMA HookLaunching ==
    ASSUME HookInv, SessionInv, NEW j \in Slots, Launching(j)
    PROVE  HookInv'
<1>1. Others /\ faults' \in {faults, faults + 1} /\ (faults' # faults => faults < MaxFaults)
  BY LaunchingFrame DEF SessionInv, JobsInv
<1>2. faults' \in 0 .. MaxFaults
  BY <1>1, SessionAssumption DEF HookInv, HookType, SessionAssumption
<1>3. HookType'
  BY <1>1, <1>2 DEF HookInv, HookType, Others, cfgVars, shellVars, checkVars
<1> QED
  BY <1>1, <1>3, HookQuiet DEF Others, cfgVars, shellVars, checkVars

\* The invariant of the hook holds.
THEOREM HookInvariant == Spec => []HookInv
<1>1. Init => HookInv
  BY HookInit
<1>2. HookInv /\ SessionInv /\ [Next]_vars => HookInv'
  <2>1. SUFFICES ASSUME HookInv, SessionInv, [Next]_vars PROVE HookInv'
    OBVIOUS
  <2>2. CASE UNCHANGED vars
    <3>1. HookType' /\ TimeInv' /\ SyncInv'
      BY <2>1, <2>2 DEF vars, HookInv, HookType, TimeInv, SyncInv, InSync
    <3> QED
      BY <3>1 DEF HookInv
  <2> QED
    BY <2>1, <2>2, HookPrompting, HookTyping, HookOutside, HookLaunching DEF Next
<1> QED
  BY <1>1, <1>2, SessionInvariant, PTL DEF Spec

-----------------------------------------------------------------------------
(* The filter: the anchors of the config let through what its patterns match. *)

\* A slash and a token.
LEMMA SlashSeq ==
    ASSUME "/" \in STRING
    PROVE  \A a \in STRING : /\ <<"/", a>> \in Seq(STRING) /\ Len(<<"/", a>>) = 2
                             /\ <<"/", a>>[1] = "/" /\ <<"/", a>>[2] = a
<1>1. ASSUME NEW S, NEW a \in S, NEW b \in S
      PROVE  <<b, a>> \in Seq(S) /\ Len(<<b, a>>) = 2 /\ <<b, a>>[1] = b /\ <<b, a>>[2] = a
  <2>1. <<b, a>> \in Seq(S)
    OBVIOUS
  <2> QED
    BY <2>1
<1> QED
  BY <1>1, Zenon

\* A set of numbers that is not empty has a least one.
LEMMA LeastNumber ==
    ASSUME NEW T, T \subseteq Nat, T # {}
    PROVE  \E x \in T : \A y \in T : x <= y
<1> DEFINE R == {ss \in Nat \X Nat : ss[1] < ss[2]}
<1>1. IsWellFoundedOn(R, Nat)
  BY NatLessThanWellFounded DEF OpToRel
<1>2. \A x, y \in Nat : <<y, x>> \notin R => x <= y
  OBVIOUS
<1> HIDE DEF R
<1>3. PICK x \in T : \A y \in T : <<y, x>> \notin R
  BY <1>1, WFMin
<1> QED
  BY <1>2, <1>3

\* What is left of a pattern when its last slashes are taken off is a sequence.
LEMMA NormalisedSeq ==
    ASSUME NEW pat \in Seq(STRING) \ {<<>>}
    PROVE  Normalised(pat) \in Seq(STRING)
<1> DEFINE ends == {i \in 0 .. Len(pat) : \A j \in i + 1 .. Len(pat) : pat[j] = "/"}
           last == CHOOSE i \in ends : \A j \in ends : i <= j
<1>1. Len(pat) \in Nat /\ Len(pat) \in 0 .. Len(pat) /\ \A i \in 1 .. Len(pat) : pat[i] \in STRING
  OBVIOUS
<1>2. Len(pat) \in ends
  BY <1>1
<1>3. last \in ends
  <2>1. ends \subseteq Nat /\ ends # {}
    BY <1>1, <1>2
  <2> HIDE DEF ends
  <2>2. \E i \in ends : \A j \in ends : i <= j
    BY <2>1, LeastNumber
  <2> QED
    BY <2>2
<1>4. last \in 0 .. Len(pat) /\ Normalised(pat) = IF Len(pat) = 1 THEN pat ELSE SubSeq(pat, 1, last)
  BY <1>3 DEF Normalised
<1> HIDE DEF last, ends
<1>5. SubSeq(pat, 1, last) \in Seq(STRING)
  <2>1. last \in Int /\ \A i \in 1 .. last : pat[i] \in STRING
    BY <1>1, <1>4
  <2> QED
    BY <2>1, SubSeqProperties
<1> QED
  BY <1>4, <1>5

\* literalPrefix stops before the first wildcard.
LEMMA PrefixFacts ==
    ASSUME NEW pat \in Seq(STRING)
    PROVE  \E l \in 0 .. Len(pat) :
              /\ LiteralPrefix(pat) = SubSeq(pat, 1, l)
              /\ \A i \in 1 .. l : pat[i] \notin Wildcards
<1> DEFINE wild == {i \in 1 .. Len(pat) : pat[i] \in Wildcards}
           first == CHOOSE i \in wild : \A j \in wild : i <= j
<1>1. Len(pat) \in Nat
  OBVIOUS
<1>2. CASE wild = {}
  <2>1. LiteralPrefix(pat) = pat
    BY <1>2 DEF LiteralPrefix
  <2>2. pat = SubSeq(pat, 1, Len(pat))
    OBVIOUS
  <2>3. Len(pat) \in 0 .. Len(pat) /\ \A i \in 1 .. Len(pat) : pat[i] \notin Wildcards
    BY <1>1, <1>2
  <2>4. LiteralPrefix(pat) = SubSeq(pat, 1, Len(pat))
    BY <2>1, <2>2
  <2> QED
    BY <2>3, <2>4
<1>3. CASE wild # {}
  <2>1. first \in wild /\ \A j \in wild : first <= j
    <3>1. wild \subseteq Nat
      OBVIOUS
    <3> HIDE DEF wild
    <3>2. \E i \in wild : \A j \in wild : i <= j
      BY <1>3, <3>1, LeastNumber
    <3> QED
      BY <3>2
  <2>2. LiteralPrefix(pat) = SubSeq(pat, 1, first - 1)
    BY <1>3 DEF LiteralPrefix
  <2>3. first \in 1 .. Len(pat)
    BY <2>1
  <2> HIDE DEF first
  <2>4. first - 1 \in 0 .. Len(pat) /\ \A i \in 1 .. first - 1 : i \in 1 .. Len(pat) /\ ~(first <= i)
    BY <1>1, <2>3
  <2>5. \A i \in 1 .. first - 1 : pat[i] \notin Wildcards
    BY <2>1, <2>4
  <2> QED
    BY <2>2, <2>4, <2>5
<1> QED
  BY <1>2, <1>3

\* The literal tokens before the first wildcard stand for themselves, one by one,
\* unless the path ends before the slash of a last "/**".
LEMMA LiteralsCut ==
    ASSUME NEW pat \in Seq(STRING), NEW path \in Seq(STRING), NEW l \in 0 .. Len(pat),
           \A i \in 1 .. l : pat[i] \notin Wildcards,
           NEW cut \in [1 .. Len(pat) + 1 -> 1 .. Len(path) + 1], cut[1] = 1,
           \A i \in 1 .. Len(pat) : StandsFor(pat, i, path, cut[i], cut[i + 1]),
           ~\E i \in 1 .. l : i + 1 = Len(pat) /\ cut[i] > Len(path) /\ pat[i] = "/" /\ pat[i + 1] = "**"
    PROVE  \A i \in 1 .. l : cut[i + 1] = i + 1 /\ i <= Len(path) /\ path[i] = pat[i]
<1> DEFINE Stands(i) == cut[i + 1] = i + 1 /\ i <= Len(path) /\ path[i] = pat[i]
           bad == {i \in 1 .. l : ~Stands(i)}
<1>0. Len(pat) \in Nat /\ Len(path) \in Nat /\ l \in Nat
  OBVIOUS
<1>1. ASSUME NEW i \in 1 .. l, cut[i] = i
      PROVE  Stands(i)
  <2>1. i - 1 \notin 1 .. Len(pat) \/ i - 1 \in 1 .. l
    BY <1>0
  <2>2. i \in 1 .. Len(pat) /\ i \in Nat
    BY <1>0
  <2>3. ~AnyDepth(pat, i - 1) /\ ~AnyDepth(pat, i)
    BY <2>1, <2>2 DEF AnyDepth, Wildcards
  <2>4. StandsFor(pat, i, path, cut[i], cut[i + 1])
    BY <2>2
  <2>5. pat[i] \notin Wildcards
    OBVIOUS
  <2>6. ~(pat[i] = "/" /\ i + 1 = Len(pat) /\ AnyDepth(pat, i + 1) /\ cut[i] > Len(path))
    BY DEF AnyDepth
  <2> QED
    BY <1>1, <2>3, <2>4, <2>5, <2>6 DEF StandsFor, Wildcards
<1>2. SUFFICES ASSUME bad # {} PROVE FALSE
  OBVIOUS
<1>3. PICK x \in bad : \A y \in bad : x <= y
  <2>1. bad \subseteq Nat
    OBVIOUS
  <2> HIDE DEF bad
  <2> QED
    BY <1>2, <2>1, LeastNumber
<1>4. x \in 1 .. l /\ ~Stands(x)
  BY <1>3
<1>5. cut[x] = x
  <2>1. CASE x = 1
    BY <2>1
  <2>2. CASE x # 1
    <3>1. x - 1 \in 1 .. l /\ ~(x <= x - 1) /\ (x - 1) + 1 = x
      BY <1>0, <1>4, <2>2
    <3>2. Stands(x - 1)
      BY <1>3, <3>1
    <3> QED
      BY <3>1, <3>2
  <2> QED
    BY <2>1, <2>2
<1> QED
  BY <1>1, <1>4, <1>5

\* A path that a pattern matches starts with the pattern's literal prefix, but
\* for the directory itself of a pattern that ends in "/**".
LEMMA MatchHasPrefix ==
    ASSUME NEW pat \in Seq(STRING), NEW path \in Seq(STRING), Match(pat, path),
           path \o <<"/", "**">> # pat
    PROVE  IsPrefix(LiteralPrefix(pat), path)
<1>0. Len(pat) \in Nat /\ Len(path) \in Nat
  OBVIOUS
<1>1. PICK cut \in [1 .. Len(pat) + 1 -> 1 .. Len(path) + 1] :
        /\ cut[1] = 1
        /\ \A i \in 1 .. Len(pat) : StandsFor(pat, i, path, cut[i], cut[i + 1])
  BY DEF Match
<1>2. PICK l \in 0 .. Len(pat) : /\ LiteralPrefix(pat) = SubSeq(pat, 1, l)
                                 /\ \A i \in 1 .. l : pat[i] \notin Wildcards
  BY PrefixFacts
<1>3. ASSUME NEW e \in 1 .. l, e + 1 = Len(pat), cut[e] > Len(path), pat[e] = "/", pat[e + 1] = "**"
      PROVE  FALSE
  <2>1. e \in Nat /\ e - 1 \in 0 .. Len(pat) /\ \A i \in 1 .. e - 1 : i \in 1 .. l /\ i + 1 # Len(pat)
    BY <1>0, <1>2, <1>3
  <2>2. \A i \in 1 .. e - 1 : cut[i + 1] = i + 1 /\ i <= Len(path) /\ path[i] = pat[i]
    <3> DEFINE k == e - 1
    <3>1. k \in 0 .. Len(pat) /\ \A i \in 1 .. k : pat[i] \notin Wildcards /\ i + 1 # Len(pat)
      BY <1>2, <2>1
    <3>2. ~\E i \in 1 .. k : i + 1 = Len(pat) /\ cut[i] > Len(path) /\ pat[i] = "/" /\ pat[i + 1] = "**"
      BY <3>1
    <3>3. \A i \in 1 .. k : pat[i] \notin Wildcards
      BY <3>1
    <3> HIDE DEF k
    <3>4. \A i \in 1 .. k : cut[i + 1] = i + 1 /\ i <= Len(path) /\ path[i] = pat[i]
      BY <1>1, <3>1, <3>2, <3>3, LiteralsCut
    <3> QED
      BY <3>4 DEF k
  <2>3. cut[e] = e
    <3>1. CASE e = 1
      BY <1>1, <3>1
    <3>2. CASE e # 1
      <4>1. e - 1 \in 1 .. e - 1 /\ (e - 1) + 1 = e
        BY <2>1, <3>2
      <4> QED
        BY <2>2, <4>1
    <3> QED
      BY <3>1, <3>2
  <2>4. Len(path) = e - 1
    <3>1. e \in 1 .. Len(path) + 1
      <4>1. e \in 1 .. Len(pat) + 1
        BY <1>0, <1>2
      <4> QED
        BY <1>1, <2>3, <4>1
    <3> QED
      BY <1>0, <1>3, <2>1, <2>3, <3>1
  <2>5. "/" \in STRING /\ "**" \in STRING
    <3>1. e \in 1 .. Len(pat) /\ e + 1 \in 1 .. Len(pat)
      BY <1>0, <1>2, <1>3
    <3>2. pat[e] \in STRING /\ pat[e + 1] \in STRING
      BY <3>1
    <3> QED
      BY <1>3, <3>2
  <2> DEFINE q == path \o <<"/", "**">>
  <2>6. q \in Seq(STRING) /\ Len(q) = Len(pat)
    BY <1>0, <1>3, <2>1, <2>4
  <2>7. \A i \in 1 .. Len(pat) : q[i] = pat[i]
    <3> TAKE i \in 1 .. Len(pat)
    <3>1. CASE i \in 1 .. e - 1
      BY <2>2, <2>4, <3>1
    <3>2. CASE i = e
      BY <1>3, <2>1, <2>4, <3>2
    <3>3. CASE i = e + 1
      <4>1. q[(e - 1) + 2] = "**" /\ (e - 1) + 2 = e + 1
        <5> DEFINE w == <<"/", "**">>
        <5>1. w \in Seq(STRING) /\ Len(w) = 2 /\ w[2] = "**"
          BY <2>5, SlashSeq, Zenon
        <5>2. q = path \o w
          OBVIOUS
        <5> HIDE DEF w, q
        <5>3. q[Len(path) + 2] = w[2]
          <6>1. Len(path) + 2 \in 1 .. Len(path) + Len(w) /\ ~(Len(path) + 2 <= Len(path))
                /\ (Len(path) + 2) - Len(path) = 2
            BY <1>0, <5>1
          <6> QED
            <7>1. \A k \in 1 .. Len(path) + Len(w) : (path \o w)[k] =
                     IF k <= Len(path) THEN path[k] ELSE w[k - Len(path)]
              BY <5>1, ConcatProperties
            <7> QED
              BY <5>2, <6>1, <7>1, Zenon
        <5> QED
          BY <2>1, <2>4, <5>1, <5>3
      <4> QED
        BY <1>3, <3>3, <4>1
    <3>4. i \in Nat /\ i <= e + 1 /\ i >= 1
      BY <1>0, <1>3, <2>1
    <3> HIDE DEF q
    <3> QED
      BY <2>1, <3>1, <3>2, <3>3, <3>4
  <2>8. q = pat
    <3> HIDE DEF q
    <3> QED
      BY <2>6, <2>7, SeqEqual
  <2> QED
    BY <2>8
<1>4. \A i \in 1 .. l : cut[i + 1] = i + 1 /\ i <= Len(path) /\ path[i] = pat[i]
  BY <1>1, <1>2, <1>3, LiteralsCut
<1>5. l <= Len(path)
  <2>1. CASE l = 0
    BY <1>0, <2>1
  <2>2. CASE l # 0
    <3>1. l \in 1 .. l
      BY <1>0, <2>2
    <3> QED
      BY <1>4, <3>1
  <2> QED
    BY <2>1, <2>2
<1> DEFINE p == SubSeq(pat, 1, l)
           t == SubSeq(path, 1, l)
<1>6. l \in Nat /\ \A i \in 1 .. l : i \in 1 .. Len(pat) /\ i \in 1 .. Len(path)
  BY <1>0, <1>5
<1>7. p \in Seq(STRING) /\ Len(p) = l /\ \A i \in 1 .. l : p[i] = pat[i]
  BY <1>0, <1>6
<1>8. t \in Seq(STRING) /\ Len(t) = l /\ \A i \in 1 .. l : t[i] = path[i]
  BY <1>0, <1>6
<1> HIDE DEF p, t
<1>9. p = t
  BY <1>4, <1>7, <1>8, SeqEqual
<1>10. SubSeq(p, 1, l) = p
  BY <1>7
<1> QED
  BY <1>2, <1>5, <1>7, <1>9, <1>10 DEF IsPrefix, p, t

\* A prefix, token by token.
LEMMA PrefixTokens ==
    ASSUME NEW s \in Seq(STRING), NEW t \in Seq(STRING)
    PROVE  IsPrefix(s, t) <=> Len(s) <= Len(t) /\ \A i \in 1 .. Len(s) : s[i] = t[i]
<1>1. Len(s) \in Nat /\ Len(t) \in Nat /\ SubSeq(s, 1, Len(s)) = s
  OBVIOUS
<1>2. SUFFICES ASSUME Len(s) <= Len(t)
               PROVE  s = SubSeq(t, 1, Len(s)) <=> \A i \in 1 .. Len(s) : s[i] = t[i]
  BY <1>1 DEF IsPrefix
<1> DEFINE p == SubSeq(t, 1, Len(s))
<1>3. \A i \in 1 .. Len(s) : i \in 1 .. Len(t)
  BY <1>1, <1>2
<1>4. p \in Seq(STRING) /\ Len(p) = Len(s) /\ \A i \in 1 .. Len(s) : p[i] = t[i]
  BY <1>1, <1>3
<1> HIDE DEF p
<1>5. (\A i \in 1 .. Len(s) : s[i] = t[i]) => s = p
  BY <1>4, SeqEqual
<1> QED
  BY <1>4, <1>5 DEF p

\* The path of a command of a directory, and that directory with its slash.
LEMMA CommandPath ==
    ASSUME NEW dir \in Seq(STRING), NEW c \in STRING, "/" \in STRING
    PROVE  LET d == dir \o <<"/">>
               q == dir \o <<"/", c>>
           IN  /\ d \in Seq(STRING) /\ Len(d) = Len(dir) + 1
               /\ q \in Seq(STRING) /\ Len(q) = Len(dir) + 2
               /\ \A i \in 1 .. Len(dir) + 1 : d[i] = q[i]
<1> DEFINE u == <<"/">>
           w == <<"/", c>>
           d == dir \o u
           q == dir \o w
<1>1. u \in Seq(STRING) /\ Len(u) = 1 /\ u[1] = "/"
  <2>1. ASSUME NEW S, NEW a \in S
        PROVE  <<a>> \in Seq(S) /\ Len(<<a>>) = 1 /\ <<a>>[1] = a
    OBVIOUS
  <2> QED
    BY <2>1, Zenon
<1>2. w \in Seq(STRING) /\ Len(w) = 2 /\ w[1] = "/"
  BY SlashSeq, Zenon
<1> HIDE DEF u, w
<1>3. /\ d \in Seq(STRING) /\ Len(d) = Len(dir) + 1
      /\ \A i \in 1 .. Len(dir) + 1 : d[i] = IF i <= Len(dir) THEN dir[i] ELSE u[i - Len(dir)]
  <2>1. d \in Seq(STRING) /\ Len(d) = Len(dir) + Len(u)
    BY <1>1, ConcatProperties
  <2>2. \A i \in 1 .. Len(dir) + Len(u) : d[i] = IF i <= Len(dir) THEN dir[i] ELSE u[i - Len(dir)]
    BY <1>1, ConcatProperties
  <2> QED
    BY <1>1, <2>1, <2>2, Zenon
<1>4. /\ q \in Seq(STRING) /\ Len(q) = Len(dir) + 2
      /\ \A i \in 1 .. Len(dir) + 2 : q[i] = IF i <= Len(dir) THEN dir[i] ELSE w[i - Len(dir)]
  <2>1. q \in Seq(STRING) /\ Len(q) = Len(dir) + Len(w)
    BY <1>2, ConcatProperties
  <2>2. \A i \in 1 .. Len(dir) + Len(w) : q[i] = IF i <= Len(dir) THEN dir[i] ELSE w[i - Len(dir)]
    BY <1>2, ConcatProperties
  <2> QED
    BY <1>2, <2>1, <2>2, Zenon
<1>5. ASSUME NEW i \in 1 .. Len(dir) + 1
      PROVE  d[i] = q[i]
  <2>1. Len(dir) \in Nat /\ i \in 1 .. Len(dir) + 2 /\ (i <= Len(dir) \/ i - Len(dir) = 1)
    OBVIOUS
  <2>2. CASE i <= Len(dir)
    BY <1>3, <1>4, <2>1, <2>2
  <2>3. CASE ~(i <= Len(dir))
    BY <1>1, <1>2, <1>3, <1>4, <2>1, <2>3
  <2> QED
    BY <2>2, <2>3
<1> QED
  BY <1>3, <1>4, <1>5 DEF u, w

\* A directory in which a command is plausible is searched for bare commands.
LEMMA BareComplete ==
    ASSUME NEW a, a.exact \subseteq Seq(STRING), a.prefixes \subseteq Seq(STRING),
           NEW dir \in Seq(STRING), NEW c \in STRING, "/" \in STRING,
           Plausible(a, dir \o <<"/", c>>)
    PROVE  BareActive(a, dir)
<1> DEFINE d == dir \o <<"/">>
           q == dir \o <<"/", c>>
<1>1. /\ d \in Seq(STRING) /\ Len(d) = Len(dir) + 1
      /\ q \in Seq(STRING) /\ Len(q) = Len(dir) + 2
      /\ \A i \in 1 .. Len(dir) + 1 : d[i] = q[i]
  BY CommandPath
<1>2. Plausible(a, q)
  OBVIOUS
<1>3. Len(dir) \in Nat
  OBVIOUS
<1> SUFFICES \/ \E e \in a.exact : Len(e) = Len(dir) + 2 /\ IsPrefix(d, e)
             \/ \E p \in a.prefixes : IsPrefix(p, d) \/ IsPrefix(d, p)
  BY DEF BareActive
<1> HIDE DEF d, q
<1>4. CASE q \in a.exact
  <2>1. IsPrefix(d, q)
    BY <1>1, <1>3, PrefixTokens
  <2> QED
    BY <1>1, <1>4, <2>1
<1>5. ASSUME NEW p \in a.prefixes, IsPrefix(p, q)
      PROVE  IsPrefix(p, d) \/ IsPrefix(d, p)
  <2>1. p \in Seq(STRING) /\ Len(p) \in Nat
    OBVIOUS
  <2>2. Len(p) <= Len(dir) + 2 /\ \A i \in 1 .. Len(p) : p[i] = q[i]
    BY <1>1, <1>5, <2>1, PrefixTokens
  <2>3. CASE Len(p) <= Len(dir) + 1
    <3>1. \A i \in 1 .. Len(p) : p[i] = d[i]
      BY <1>1, <1>3, <2>1, <2>2, <2>3
    <3> QED
      BY <1>1, <2>1, <2>3, <3>1, PrefixTokens
  <2>4. CASE Len(p) = Len(dir) + 2
    <3>1. \A i \in 1 .. Len(d) : d[i] = p[i]
      BY <1>1, <1>3, <2>2, <2>4
    <3>2. Len(d) <= Len(p)
      BY <1>1, <1>3, <2>4
    <3> QED
      BY <1>1, <2>1, <3>1, <3>2, PrefixTokens
  <2> QED
    BY <1>3, <2>1, <2>2, <2>3, <2>4
<1> QED
  BY <1>2, <1>4, <1>5 DEF Plausible

\* The anchors are sequences of tokens.
LEMMA AnchorsSeqs ==
    ASSUME NEW c \in Configs
    PROVE  Anchors(c).exact \subseteq Seq(STRING) /\ Anchors(c).prefixes \subseteq Seq(STRING)
<1>1. \A m \in Range(c) : m.pat \in Seq(STRING) \ {<<>>}
  BY SessionAssumption DEF SessionAssumption
<1>2. Exact(c) \subseteq Seq(STRING)
  BY <1>1 DEF Exact
<1>3. Globs(c) \subseteq Seq(STRING)
  BY <1>1, NormalisedSeq DEF Globs
<1>4. ASSUME NEW g \in Globs(c)
      PROVE  LiteralPrefix(g) \in Seq(STRING)
  <2>1. g \in Seq(STRING) /\ Len(g) \in Nat
    BY <1>3
  <2>2. PICK l \in 0 .. Len(g) : LiteralPrefix(g) = SubSeq(g, 1, l)
    BY <2>1, PrefixFacts
  <2>3. l \in Int /\ \A i \in 1 .. l : g[i] \in STRING
    BY <2>1
  <2> QED
    BY <2>2, <2>3, SubSeqProperties
<1> QED
  BY <1>2, <1>4 DEF Anchors

\* The anchors of a config let through every file it maps.
LEMMA AnchorsComplete ==
    ASSUME NEW c \in Configs, NEW p \in Targets, Mapped(c, p), p \o <<"/", "**">> \notin Globs(c)
    PROVE  Plausible(Anchors(c), p)
<1>1. p \in Seq(STRING)
  <2>1. Files \subseteq Seq(STRING) /\ BinDir \in Seq(STRING) /\ Cmds \subseteq STRING
        /\ "/" \in STRING
    BY SessionAssumption DEF SessionAssumption
  <2>2. \A x \in Cmds : BinDir \o <<"/", x>> \in Seq(STRING)
    <3> TAKE x \in Cmds
    <3> DEFINE w == <<"/", x>>
    <3>1. x \in STRING
      BY <2>1
    <3>2. w \in Seq(STRING)
      BY <2>1, <3>1, SlashSeq, Zenon
    <3> HIDE DEF w
    <3>3. BinDir \o w \in Seq(STRING)
      BY <2>1, <3>2, ConcatProperties
    <3> QED
      BY <3>3 DEF w
  <2> QED
    BY <2>1, <2>2 DEF Targets, RealPath
<1>2. ASSUME NEW g \in Globs(c)
      PROVE  g \in Seq(STRING)
  BY SessionAssumption, NormalisedSeq DEF SessionAssumption, Globs
<1>3. CASE p \in Exact(c)
  BY <1>3 DEF Plausible, Anchors
<1>4. ASSUME NEW g \in Globs(c), Match(g, p)
      PROVE  Plausible(Anchors(c), p)
  <2>1. IsPrefix(LiteralPrefix(g), p)
    BY <1>1, <1>2, <1>4, MatchHasPrefix
  <2> QED
    BY <2>1 DEF Plausible, Anchors
<1> QED
  BY <1>3, <1>4 DEF Mapped

-----------------------------------------------------------------------------
(* Theorems.                                                                *)

\* Types of the whole session.
THEOREM SessionTypes == Spec => []SessionTypeOK
<1>1. SessionInv /\ HookInv => SessionTypeOK
  BY DEF SessionInv, JobsInv, JobInv, EarlyInv, HookInv, HookType, SessionTypeOK
<1> QED
  BY <1>1, SessionInvariant, HookInvariant, PTL

\* What the index says of a directory and what it says of a command in it agree.
LEMMA WantedMapped ==
    ASSUME NEW c \in Configs, NEW d \in Dirs
    PROVE  Wanted[c][d] = {x \in Cmds : MappedCwd(c, d, x)}
<1>1. Wanted[c][d] = CwdCommands(c, d) /\ Wanted[c][d] \subseteq Cmds
  BY WantedFacts
<1>2. \A x : x \in CwdCommands(c, d) <=> MappedCwd(c, d, x)
  BY DEF CwdCommands, MappedCwd, LookupCwd
<1> QED
  BY <1>1, <1>2

\* The wrappers at a settled prompt are those of the config and the directory,
\* whatever was edited while the helper ran and whichever of its steps failed.
THEOREM WrappersFollow == Spec => []WrappersCurrent
<1>1. HookInv => WrappersCurrent
  <2>1. SUFFICES ASSUME HookInv, Settled
                 PROVE  wrappers = {c \in Cmds : MappedCwd(cfg.content, pwd, c)}
    BY DEF WrappersCurrent
  <2>2. InSync /\ cfg.content \in Configs /\ pwd \in Dirs
    BY <2>1 DEF HookInv, SyncInv, HookType, Settled
  <2> QED
    BY <2>2, WantedMapped DEF InSync
<1> QED
  BY <1>1, HookInvariant, PTL

\* Whenever the prompt is settled, the filter of the hook asks about every file
\* and command that the config maps, whatever was edited while the helper ran and
\* whichever of its steps failed - but for the directory of a last "/**".
THEOREM FilterComplete == Spec => []RouteComplete
<1>1. HookInv => RouteComplete
  <2>1. SUFFICES ASSUME HookInv, Settled, NEW p \in Targets,
                        Mapped(cfg.content, p), p \o <<"/", "**">> \notin Globs(cfg.content)
                 PROVE  Plausible(anchors, p) /\ (p \in Files \/ BareActive(anchors, BinDir))
    <3>1. HookInv /\ Settled => cfg.content \in Configs
      BY DEF HookInv, HookType, Settled
    <3>2. HookInv /\ Settled => \A p \in Targets : IsMapped[cfg.content][p] = Mapped(cfg.content, p)
      BY <3>1 DEF IsMapped
    <3> QED
      BY <3>2 DEF RouteComplete
  <2>2. InSync /\ cfg.content \in Configs /\ anchors = sidecar
    BY <2>1 DEF HookInv, SyncInv, HookType, Settled
  <2>3. anchors = Anchors(cfg.content)
    BY <2>2 DEF InSync, Anchored
  <2>4. Plausible(anchors, p)
    BY <2>1, <2>2, <2>3, AnchorsComplete
  <2>5. ASSUME NEW c \in Cmds, p = RealPath(c)
        PROVE  BareActive(anchors, BinDir)
    <3>1. c \in STRING /\ "/" \in STRING /\ BinDir \in Seq(STRING)
      BY SessionAssumption DEF SessionAssumption
    <3>2. anchors.exact \subseteq Seq(STRING) /\ anchors.prefixes \subseteq Seq(STRING)
      BY <2>2, <2>3, AnchorsSeqs
    <3>3. Plausible(anchors, BinDir \o <<"/", c>>)
      BY <2>4, <2>5 DEF RealPath
    <3> QED
      BY <3>1, <3>2, <3>3, BareComplete
  <2> QED
    BY <2>4, <2>5 DEF Targets
<1> QED
  BY <1>1, HookInvariant, PTL

\* bash's hash table and the wrapper directory agree whenever the prompt is
\* ready, unless a reconcile failed half way.
THEOREM HashIsFresh == Spec => []HashFresh
<1>1. SessionInv => HashFresh
  BY DEF SessionInv, HashInv, HashFresh
<1> QED
  BY <1>1, SessionInvariant, PTL

\* Whatever the programs of a command start, one wrapper injects and one warns.
THEOREM OneHopInjects == Spec => []FirstHopWins
<1>1. SessionInv => FirstHopWins
  BY DEF SessionInv, FrontInv, FirstOK, FirstHopWins
<1> QED
  BY <1>1, SessionInvariant, PTL

\* The first command of a line asks the agent, whatever ran before.
THEOREM TypedCommandAsks == Spec => []TypedAsks
<1>1. SessionInv => TypedAsks
  BY DEF SessionInv, FrontInv, TypedOK, TypedAsks
<1> QED
  BY <1>1, SessionInvariant, PTL

\* A key pressed in time is the answer, however the select of the countdown
\* chooses.
THEOREM EarlyKeyWins == Spec => EarlyKeyDecides
<1>1. ASSUME SessionInv, [Next]_vars
      PROVE  [\A j \in Slots : job[j].hops = 0 /\ job[j].early /\ job'[j].at # "countdown"
                  => job'[j].answer = ClassifyKey(job[j].key)]_vars
  <2>1. SUFFICES ASSUME NEW j \in Slots, job[j].hops = 0, job[j].early,
                        job'[j].at # "countdown"
                 PROVE  job'[j].answer = ClassifyKey(job[j].key)
    OBVIOUS
  <2>2. job[j].at = "countdown" /\ job \in [Slots -> Job]
    BY <1>1, <2>1 DEF SessionInv, JobsInv, JobInv, EarlyInv
  <2>3. job' # job
    BY <2>1, <2>2
  <2>4. PICK i \in Slots : EarlyOK(job[i], job'[i]) /\ \E s : Becomes(i, s)
    BY <1>1, <2>3, SessionStep
  <2>5. i = j
    BY <2>1, <2>2, <2>4 DEF Becomes
  <2> QED
    BY <2>1, <2>4, <2>5 DEF EarlyOK
<1> QED
  BY <1>1, SessionInvariant, PTL DEF Spec, EarlyKeyDecides

\* A step of one command, seen by Launch.
LEMMA MovesImplement ==
    ASSUME NEW j \in Slots, NEW s, JobsInv, JobsInv', Becomes(j, s), Moves(job[j], job'[j])
    PROVE  [Launched!Next]_<<[i \in Slots |-> Stage(job[i])], [i \in Slots |-> job[i].answer]>>
<1> DEFINE st == [i \in Slots |-> Stage(job[i])]
           an == [i \in Slots |-> job[i].answer]
           su == [i \in Slots |-> Stage(job'[i])]
           bn == [i \in Slots |-> job'[i].answer]
           r == job[j]
           t == job'[j]
<1>1. /\ st' = su /\ an' = bn
  OBVIOUS
<1>2. /\ su = [st EXCEPT ![j] = Stage(t)] /\ bn = [an EXCEPT ![j] = t.answer]
      /\ st[j] = Stage(r) /\ an[j] = r.answer
  BY DEF Becomes, JobsInv
<1>3. st' = [st EXCEPT ![j] = Stage(t)] /\ an' = [an EXCEPT ![j] = t.answer]
  BY <1>1, <1>2
<1>4. /\ t.answer = r.answer => an' = an
      /\ Stage(t) = Stage(r) => st' = st
  BY <1>2, <1>3
<1>5. /\ Launched!Hold(j) <=> st[j] = "idle" /\ st' = [st EXCEPT ![j] = "held"] /\ an' = an
      /\ Launched!Refuse(j) <=> /\ st[j] = "held"
                                /\ st' = [st EXCEPT ![j] = "refused"] /\ an' = an
      /\ Launched!End(j) <=> /\ st[j] \in {"injected", "plain", "refused"}
                             /\ st' = [st EXCEPT ![j] = "idle"]
                             /\ an' = [an EXCEPT ![j] = "none"]
  BY DEF Launched!Hold, Launched!Refuse, Launched!End, Launched!Running
<1>6. \A a : Launched!Ask(j, a) <=>
         /\ st[j] = "held" /\ an[j] = "none" /\ an' = [an EXCEPT ![j] = a]
         /\ st' = IF a = "abort" THEN [st EXCEPT ![j] = "refused"] ELSE st
  BY DEF Launched!Ask
<1>7. \A how : Launched!Run(j, how) <=>
         /\ st[j] = "held" \/ (st[j] = "idle" /\ how = "plain")
         /\ how = "injected" => an[j] # "continue"
         /\ st' = [st EXCEPT ![j] = how] /\ an' = an
  BY DEF Launched!Run
<1>8. Launched!Next <=> \E i \in Slots :
         \/ Launched!Hold(i) \/ Launched!Refuse(i) \/ Launched!End(i)
         \/ \E a \in {"continue", "abort", "unlock"} : Launched!Ask(i, a)
         \/ \E how \in {"injected", "plain"} : Launched!Run(i, how)
  BY DEF Launched!Next, Launched!Running
<1> HIDE DEF st, an, su, bn, r, t
<1>9. CASE Stage(t) = Stage(r) /\ t.answer = r.answer
  BY <1>4, <1>9 DEF st, an
<1>10. CASE Stage(r) = "idle" /\ Stage(t) \in {"held", "plain"} /\ t.answer = r.answer
  <2>1. Launched!Hold(j) \/ Launched!Run(j, "plain")
    BY <1>2, <1>3, <1>4, <1>5, <1>7, <1>10
  <2> QED
    BY <1>8, <2>1
<1>11. CASE Stage(r) = "held"
            /\ \/ Stage(t) = "held" /\ r.answer = "none" /\ t.answer \in {"continue", "unlock"}
               \/ Stage(t) = "refused" /\ r.answer = "none" /\ t.answer = "abort"
               \/ Stage(t) = "refused" /\ t.answer = r.answer
  <2>1. Launched!Refuse(j) \/ \E a \in {"continue", "abort", "unlock"} : Launched!Ask(j, a)
    BY <1>2, <1>3, <1>4, <1>5, <1>6, <1>11
  <2> QED
    BY <1>8, <2>1
<1>12. CASE /\ Stage(r) = "held" /\ Stage(t) \in {"injected", "plain"} /\ t.answer = r.answer
            /\ Stage(t) = "injected" => r.answer # "continue"
  <2>1. Launched!Run(j, Stage(t))
    BY <1>2, <1>3, <1>4, <1>7, <1>12
  <2> QED
    BY <1>8, <1>12, <2>1
<1>13. CASE /\ Stage(r) \in {"injected", "plain", "refused"}
            /\ Stage(t) = "idle" /\ t.answer = "none"
  <2>1. Launched!End(j)
    BY <1>2, <1>3, <1>5, <1>13
  <2> QED
    BY <1>8, <2>1
<1> QED
  BY <1>9, <1>10, <1>11, <1>12, <1>13 DEF Moves, r, t

\* ShellSession implements Launch: between the line that is typed and the exec
\* of its program, with a countdown, an unlock, markers and faults in between,
\* the promise to the user is kept.
THEOREM PromiseKept == Spec => KeepsPromise
<1>1. Init => Launched!Init
  BY DEF Init, Launched!Init, Stage, Idle
<1>2. ASSUME SessionInv, [Next]_vars
      PROVE  [Launched!Next]_<<[j \in Slots |-> Stage(job[j])], [j \in Slots |-> job[j].answer]>>
  <2>1. SessionInv'
    BY <1>2, SessionStep
  <2>2. CASE job' = job
    BY <2>2
  <2>3. ASSUME NEW j \in Slots, NEW s, Moves(job[j], job'[j]), Becomes(j, s)
        PROVE  [Launched!Next]_<<[i \in Slots |-> Stage(job[i])], [i \in Slots |-> job[i].answer]>>
    BY <1>2, <2>1, <2>3, MovesImplement DEF SessionInv
  <2> QED
    BY <1>2, <2>2, <2>3, SessionStep
<1> QED
  BY <1>1, <1>2, SessionInvariant, PTL DEF Spec, KeepsPromise, Launched!Spec
=============================================================================
