---------------------------- MODULE AtomicStore -----------------------------
(***************************************************************************)
(* What sandboxd's store promises to the goroutines that write to it: a    *)
(* write takes effect at one moment or not at all, the caller's answer     *)
(* tells the truth, and the writes of one caller take effect in the order  *)
(* in which it made them.  A caller whose context ends learns nothing.     *)
(***************************************************************************)
EXTENDS Naturals

CONSTANTS
  Clients,    \* goroutines that call the store's write methods
  MaxWrites   \* bound: writes of one client

Write == [by : Clients, nr : 1 .. MaxWrites]

VARIABLES
  asked,      \* asked[c]: how many writes c has begun
  answer,     \* answer[w]: "none", "ok", "err" (the SQL failed) or "ctx"
  db          \* the writes that have taken effect

Asked == {w \in Write : w.nr <= asked[w.by]}

Ask(c) ==
  /\ asked[c] < MaxWrites
  /\ asked' = [asked EXCEPT ![c] = @ + 1]
  /\ UNCHANGED <<answer, db>>

\* Once, never after an error was reported, and not behind a later write.
Commit(w) ==
  /\ w \in Asked \ db
  /\ answer[w] \in {"none", "ctx"}
  /\ \A v \in db : v.by = w.by => v.nr < w.nr
  /\ db' = db \cup {w}
  /\ UNCHANGED <<asked, answer>>

Answer(w, a) ==
  /\ w \in Asked /\ answer[w] = "none"
  /\ a = "ok" => w \in db
  /\ a = "err" => w \notin db
  /\ answer' = [answer EXCEPT ![w] = a]
  /\ UNCHANGED <<asked, db>>

Init ==
  /\ asked = [c \in Clients |-> 0]
  /\ answer = [w \in Write |-> "none"]
  /\ db = {}

Next ==
  \/ \E c \in Clients : Ask(c)
  \/ \E w \in Write : Commit(w)
  \/ \E w \in Write, a \in {"ok", "err", "ctx"} : Answer(w, a)

Spec == Init /\ [][Next]_<<asked, answer, db>>
=============================================================================
