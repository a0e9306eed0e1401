------------------------------- MODULE Timespec ------------------------------
(***************************************************************************)
(* The time arithmetic of libposix (posix_utils.c): a caller makes a       *)
(* deadline from a number of nanoseconds, adds to it, and turns it into    *)
(* the ticks left at the time it asks.  Deadlines are struct timespec;     *)
(* beside each the model keeps the instant it stands for as an integer.    *)
(***************************************************************************)
EXTENDS Integers

CONSTANTS
  NsPerSec,     \* NANOSECONDS_PER_SECOND
  TickHz,       \* posixconfigTICK_RATE_HZ
  TickMax,      \* largest TickType_t
  Checked,      \* sizeof(TickType_t) = sizeof(uint32_t)
  SecMax,       \* largest int64_t, the type of time_t and of total_ticks
  MaxNow,       \* bound: the current time
  Steps         \* nanoseconds that are converted and added

ASSUME TimespecConstants ==
  /\ NsPerSec \in Nat \ {0} /\ TickHz \in 1 .. NsPerSec /\ NsPerSec % TickHz = 0
  /\ TickMax \in Nat /\ Checked \in BOOLEAN /\ SecMax \in Nat /\ MaxNow \in Nat
  /\ Steps \subseteq Int
\* The nanoseconds of an int64_t are less than half of what a time_t of that
\* width holds in seconds.
ASSUME StepsFit ==
  \A n \in Steps : -(NsPerSec * SecMax) <= 2 * n /\ 2 * n <= NsPerSec * SecMax

NsPerTick == NsPerSec \div TickHz
\* C's / and %, and the wrap of an int64_t.
CDiv(a, b) == IF a >= 0 THEN a \div b ELSE -((-a) \div b)
CMod(a, b) == a - b * CDiv(a, b)
ToInt64(x) == ((x + SecMax + 1) % (2 * (SecMax + 1))) - SecMax - 1

VARIABLES
  now,      \* the time, in nanoseconds
  ts,       \* the deadline, or NoTs
  instant,  \* auxiliary: the nanoseconds it stands for
  ticks     \* the last answer: its error, the ticks, and the nanoseconds that were left

timeVars == <<now, ts, instant, ticks>>
NoTs == [sec |-> 0, nsec |-> -1]
NoTicks == [err |-> "none", n |-> 0, left |-> 0]
Result(err, t) == [err |-> err, t |-> t]

-----------------------------------------------------------------------------
ValidateTimespec(t) == t.nsec \in 0 .. NsPerSec - 1

TimespecCompare(x, y) ==
  IF x.sec > y.sec THEN 1 ELSE IF x.sec < y.sec THEN -1
  ELSE IF x.nsec > y.nsec THEN 1 ELSE IF x.nsec < y.nsec THEN -1 ELSE 0

\* Mutant of TimespecSubtract: no borrow.
TimespecSubtractNoBorrow(x, y) ==
  IF TimespecCompare(x, y) = -1 THEN Result(1, NoTs)
  ELSE Result(0, [sec |-> x.sec - y.sec, nsec |-> x.nsec - y.nsec])
TimespecSubtract(x, y) ==
  LET c == TimespecCompare(x, y)
      borrow == IF x.nsec < y.nsec THEN 1 ELSE 0
      t == [sec |-> x.sec - y.sec - borrow, nsec |-> x.nsec - y.nsec + borrow * NsPerSec]
  IN IF c = -1 THEN Result(1, NoTs)
     ELSE IF c = 0 THEN Result(0, [sec |-> 0, nsec |-> 0])
     ELSE Result(IF t.nsec < 0 THEN -1 ELSE 0, t)

TimespecAdd(x, y) ==
  LET nsec == x.nsec + y.nsec
      sec == ToInt64(x.sec + y.sec + nsec \div NsPerSec)
  IN IF nsec < 0 THEN Result(1, NoTs)
     ELSE Result(IF sec < 0 THEN 1 ELSE 0, [sec |-> sec, nsec |-> nsec % NsPerSec])

TimespecAddNanoseconds(x, ns) ==
  LET total == x.nsec + ns
      sec == ToInt64(x.sec + total \div NsPerSec)
  IN IF total < 0 THEN Result(1, NoTs)
     ELSE Result(IF sec < 0 THEN 1 ELSE 0, [sec |-> sec, nsec |-> total % NsPerSec])

\* A negative remainder carries one second.
NanosecondsToTimespec(n) ==
  LET t == [sec |-> CDiv(n, NsPerSec), nsec |-> CMod(n, NsPerSec)]
      carry == CDiv(t.nsec, NsPerSec) + 1
  IN IF t.nsec < 0 THEN [sec |-> t.sec - carry, nsec |-> t.nsec + carry * NsPerSec] ELSE t

\* UTILS_TimespecToTicks: rounds up; total_ticks wraps and is tested for its
\* sign only; the narrowing is tested for one width of TickType_t, and the
\* result is cut to the width.
TimespecToTicks(t) ==
  LET total == ToInt64(TickHz * t.sec + CDiv(t.nsec, NsPerTick)
                       + (IF t.nsec % NsPerTick # 0 THEN 1 ELSE 0))
  IN IF ~ValidateTimespec(t) THEN [err |-> "EINVAL", n |-> 0]
     ELSE [err |-> IF total < 0 \/ (Checked /\ total > TickMax) THEN "EINVAL" ELSE "none",
           n |-> total % (TickMax + 1)]

AbsoluteTimespecToDeltaTicks(abs, cur) ==
  LET d == TimespecSubtract(abs, cur)
  IN CASE d.err = 1  -> [err |-> "ETIMEDOUT", n |-> 0]
       [] d.err = -1 -> [err |-> "EINVAL", n |-> 0]
       [] OTHER      -> TimespecToTicks(d.t)

-----------------------------------------------------------------------------
TimeInit == now = 0 /\ ts = NoTs /\ instant = 0 /\ ticks = NoTicks

SetDeadline(n) ==
  /\ ts' = NanosecondsToTimespec(n) /\ instant' = n /\ UNCHANGED <<now, ticks>>
\* The caller drops a sum that is an error.
Sum(r, n) ==
  /\ ts' = IF r.err = 0 THEN r.t ELSE NoTs
  /\ instant' = instant + n /\ UNCHANGED <<now, ticks>>
AddNanoseconds(n) == ts # NoTs /\ Sum(TimespecAddNanoseconds(ts, n), n)
AddTimespec(n) == ts # NoTs /\ Sum(TimespecAdd(ts, NanosecondsToTimespec(n)), n)
Ask ==
  /\ ts # NoTs
  /\ LET a == AbsoluteTimespecToDeltaTicks(ts, NanosecondsToTimespec(now))
     IN ticks' = [err |-> a.err, n |-> a.n, left |-> instant - now]
  /\ UNCHANGED <<now, ts, instant>>
Pass(n) ==
  /\ now + n \in 0 .. MaxNow /\ now' = now + n /\ ticks' = NoTicks /\ UNCHANGED <<ts, instant>>

TimeNext ==
  \/ Ask
  \/ \E n \in Steps : SetDeadline(n) \/ AddNanoseconds(n) \/ AddTimespec(n) \/ (n > 0 /\ Pass(n))
TimeSpec == TimeInit /\ [][TimeNext]_timeVars

-----------------------------------------------------------------------------
\* UTILS_NanosecondsToTimespec, UTILS_TimespecAdd, UTILS_TimespecAddNanoseconds,
\* UTILS_TimespecSubtract and UTILS_TimespecToTicks, chained: a deadline that was
\* not refused is a valid timespec for the very instant the caller meant, before
\* and after 1970; it is refused as late exactly when it has passed; and while
\* the ticks left fit the int64_t they are counted in, the wait for them ends at
\* the deadline or less than a tick later, and is refused as invalid only when
\* they do not fit TickType_t.  A TickType_t of another width than 32 bits may
\* cut the ticks off instead.  Past the int64_t nothing is asked: the test under
\* 'Check for overflow' (posix_utils.c:100) sees only the sign, and a product that
\* wraps past zero is a success and a wait that is too short.
TimeExact ==
  /\ ts # NoTs => ValidateTimespec(ts) /\ ts.sec * NsPerSec + ts.nsec = instant
  /\ ticks # NoTicks =>
       /\ (ticks.err = "ETIMEDOUT") <=> (ticks.left < 0)
       /\ ticks.left <= SecMax * NsPerTick =>
            /\ ticks.err = "EINVAL" => Checked /\ ticks.left > TickMax * NsPerTick
            /\ ticks.err = "none" /\ (Checked \/ ticks.left <= TickMax * NsPerTick)
                 => ticks.n * NsPerTick - ticks.left \in 0 .. NsPerTick - 1
=============================================================================
