----------------------------- MODULE RateWindow -----------------------------
(***************************************************************************)
(* openclaw/core/middleware.go, type RateLimitMiddleware: the sliding      *)
(* window of one sender.  A message looks up or stores the window, takes   *)
(* the time, and then counts itself under the window's mutex; every so     *)
(* many messages, of this sender or of others, one of them cleans up: it   *)
(* decides under the mutex that a window is idle and deletes it by its key *)
(* after the unlock.                                                       *)
(***************************************************************************)
EXTENDS Naturals, SequencesExt

CONSTANTS
    RateMsg,       \* messages, each invoked once
    OtherSender,   \* those of other senders: they only clean this window up
    MaxPerMinute,  \* maxMessagesPerMinute
    Minute,        \* ticks of a minute
    IdleTtl,
    Delay,         \* ticks that pass at most between two steps of a message
    MaxTime,       \* bound: the clock
    NoWindow

ASSUME RateAssumption ==
    /\ OtherSender \subseteq RateMsg /\ IsFiniteSet(RateMsg)
    /\ {IdleTtl, MaxTime} \subseteq Nat /\ IdleTtl < MaxTime
    /\ MaxPerMinute \in Nat \ {0} /\ Minute \in Nat \ {0} /\ Delay \in 0..Minute
    /\ NoWindow \notin RateMsg

\* A window is named after the message that stored it.
VARIABLES
    clock,
    mapped,     \* the window under the key, or NoWindow
    entries,    \* per window: the times it has counted, in the order of counting
    lastSeen,   \* per window: lastSeenAt, 0 before the first message
    at,         \* per message: where it is
    window,     \* per message: the window it works on
    stamp,      \* per message: its time.Now()
    since,      \* per message: when it came where it is
    passed,     \* history: when each message was let through, or NoTime
    drops       \* history: windows deleted although a message was counted in
                \* them, or was about to be

rateVars == <<clock, mapped, entries, lastSeen, at, window, stamp, since, passed, drops>>

NoTime == MaxTime + 1

RateInit ==
    /\ clock = IdleTtl + 1     \* a zero time is idle whenever the program runs
    /\ mapped = NoWindow
    /\ entries = [w \in RateMsg |-> <<>>]
    /\ lastSeen = [w \in RateMsg |-> 0]
    /\ at = [m \in RateMsg |-> "new"]
    /\ window = [m \in RateMsg |-> NoWindow]
    /\ stamp = [m \in RateMsg |-> 0]
    /\ since = [m \in RateMsg |-> 0]
    /\ passed = [m \in RateMsg |-> NoTime]
    /\ drops = 0

Underway == {m \in RateMsg : at[m] \notin {"new", "done"}}

Tick ==
    /\ clock < MaxTime
    /\ \A m \in Underway : clock < since[m] + Delay
    /\ clock' = clock + 1
    /\ UNCHANGED <<mapped, entries, lastSeen, at, window, stamp, since, passed, drops>>

MoveTo(m, l) ==
    /\ at' = [at EXCEPT ![m] = l]
    /\ since' = [since EXCEPT ![m] = clock]

\* LoadOrStore, and the time.
LoadOrStore(m) ==
    /\ at[m] = "new"
    /\ m \notin OtherSender
    /\ mapped' = IF mapped = NoWindow THEN m ELSE mapped
    /\ window' = [window EXCEPT ![m] = mapped']
    /\ stamp' = [stamp EXCEPT ![m] = clock]
    /\ MoveTo(m, "count")
    /\ UNCHANGED <<clock, entries, lastSeen, passed, drops>>

\* time.Before(cutoff), where cutoff is so many ticks before now.
IsBefore(time, now, ticks) == time + ticks < now

\* The loop that drops the entries at the front that are older than a minute.
Evict(s, now) ==
    LET fresh == {i \in 1..Len(s) : \A j \in 1..i : j < i => IsBefore(s[j], now, Minute)}
        first == {i \in fresh : ~IsBefore(s[i], now, Minute)}
    IN IF first = {} THEN <<>> ELSE SubSeq(s, CHOOSE i \in first : TRUE, Len(s))

\* Mutated form: one message too many passes.
CountMessageLate(m, cleans) ==
    LET w == window[m]
        kept == Evict(entries[w], stamp[m])
    IN
    /\ at[m] = "count"
    /\ IF Len(kept) > MaxPerMinute
       THEN /\ entries' = [entries EXCEPT ![w] = kept]
            /\ MoveTo(m, "done")
            /\ UNCHANGED <<lastSeen, passed>>
       ELSE /\ entries' = [entries EXCEPT ![w] = Append(kept, stamp[m])]
            /\ lastSeen' = [lastSeen EXCEPT ![w] = stamp[m]]
            /\ passed' = [passed EXCEPT ![m] = clock]
            /\ MoveTo(m, IF cleans THEN "clean" ELSE "done")
    /\ UNCHANGED <<clock, mapped, window, stamp, drops>>

\* Under the mutex: refuse the message or count it.  Whether its number is a
\* multiple of cleanupEvery is up to the messages of all senders.
CountMessage(m, cleans) ==
    LET w == window[m]
        kept == Evict(entries[w], stamp[m])
    IN
    /\ at[m] = "count"
    /\ IF Len(kept) >= MaxPerMinute
       THEN /\ entries' = [entries EXCEPT ![w] = kept]
            /\ MoveTo(m, "done")
            /\ UNCHANGED <<lastSeen, passed>>
       ELSE /\ entries' = [entries EXCEPT ![w] = Append(kept, stamp[m])]
            /\ lastSeen' = [lastSeen EXCEPT ![w] = stamp[m]]
            /\ passed' = [passed EXCEPT ![m] = clock]
            /\ MoveTo(m, IF cleans THEN "clean" ELSE "done")
    /\ UNCHANGED <<clock, mapped, window, stamp, drops>>

\* The message of another sender was counted in its own window.
OtherCounted(m) ==
    /\ at[m] = "new"
    /\ m \in OtherSender
    /\ stamp' = [stamp EXCEPT ![m] = clock]
    /\ MoveTo(m, "clean")
    /\ UNCHANGED <<clock, mapped, entries, lastSeen, window, passed, drops>>

\* cleanupStaleWindows, with the time the message came with: under the mutex
\* of the window ...
CleanupDecides(m) ==
    /\ at[m] = "clean"
    /\ IF mapped = NoWindow
       THEN MoveTo(m, "done") /\ UNCHANGED entries
       ELSE LET kept == Evict(entries[mapped], stamp[m])
                idle == kept = <<>> /\ IsBefore(lastSeen[mapped], stamp[m], IdleTtl)
            IN /\ entries' = [entries EXCEPT ![mapped] = kept]
               /\ MoveTo(m, IF idle THEN "delete" ELSE "done")
    /\ UNCHANGED <<clock, mapped, lastSeen, window, stamp, passed, drops>>

InUse(w) == entries[w] # <<>> \/ \E m \in RateMsg : at[m] = "count" /\ window[m] = w

\* ... and after the unlock, whatever window is there by now.
CleanupDeletes(m) ==
    /\ at[m] = "delete"
    /\ drops' = IF mapped # NoWindow /\ InUse(mapped) THEN drops + 1 ELSE drops
    /\ mapped' = NoWindow
    /\ MoveTo(m, "done")
    /\ UNCHANGED <<clock, entries, lastSeen, window, stamp, passed>>

RateNext ==
    \/ Tick
    \/ \E m \in RateMsg :
          \/ LoadOrStore(m) \/ OtherCounted(m) \/ CleanupDecides(m) \/ CleanupDeletes(m)
          \/ \E cleans \in BOOLEAN : CountMessage(m, cleans)

RateSpec == RateInit /\ [][RateNext]_rateVars
-----------------------------------------------------------------------------
\* At most MaxPerMinute messages pass in a minute, less the time a message may
\* lie between its time stamp and the mutex, and once more for each window
\* that the clean-up took from under a message.
RateBound ==
    \A t \in 1..clock :
        Cardinality({m \in RateMsg : passed[m] <= t /\ t <= passed[m] + (Minute - Delay)})
            <= MaxPerMinute * (1 + drops)
=============================================================================
