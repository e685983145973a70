------------------------------- MODULE Logger -------------------------------
(***************************************************************************)
(* The core logger: how one call becomes one line.  NewLogger picks, per   *)
(* level, the function a message-only call runs (logger.go                 *)
(* setupFunctionPointers); the builders (fluent.go, fluent_typed.go,       *)
(* line.go) collect fields in a pooled state and all end in dispatchLine.  *)
(* Loggers of any configuration share the process-wide pool of states, so  *)
(* what one leaves behind in a state is what the next one finds.           *)
(***************************************************************************)
EXTENDS Naturals, Sequences, FiniteSets

CONSTANTS Threads,         \* goroutines of the application
          Loggers,         \* loggers that share the adapters and the pool
          States,          \* *perPState objects
          NoState,         \* a builder that holds no state
          Setups,          \* configurations considered, see SetupType
          LogLevels,       \* levels the application logs at
          FieldCap,        \* len(fieldBuf): 64
          EpochMod,        \* epoch is a uint32: 2^32
          StaleFieldKinds, \* builders that are given fields after their terminal
          NilErrorLoggers, \* loggers on which WithError(nil) opens a builder
          MaxCalls,        \* bound: logging calls
          MaxAdmin,        \* bound: calls of Flush, Close and SetFormatter
          MaxFields        \* bound: fields of one call

FatalLevel == 5
PanicLevel == 6
Levels == 0 .. PanicLevel
Kinds == {"line", "typed", "classic"}

\* One logger's share of its Config; bound: it was derived by With()...Logger().
LoggerType == [level : Levels, mask : BOOLEAN, sample : BOOLEAN,
               caller : BOOLEAN, bound : BOOLEAN]
\* adapters: the discard adapter, one raw-capable console adapter, or any other
\* list.  returns: Config.ExitFunc is set to a function that returns.
SetupType == [adapters : {"discard", "console", "other"}, returns : BOOLEAN,
              log : [Loggers -> LoggerType]]

ASSUME SetupsAssumption == Setups \subseteq SetupType
ASSUME LevelsAssumption == LogLevels \subseteq Levels
\* maxBoundFields is half of the static buffer.
ASSUME FieldCapAssumption == FieldCap \in Nat /\ FieldCap >= 2
ASSUME EpochAssumption == EpochMod \in Nat /\ EpochMod > MaxCalls
ASSUME NoStateAssumption == NoState \notin States
ASSUME KindsAssumption == StaleFieldKinds \subseteq Kinds /\ NilErrorLoggers \subseteq Loggers
ASSUME CallBoundsAssumption == MaxCalls \in Nat /\ MaxFields \in Nat /\ MaxAdmin \in Nat

VARIABLES setup,    \* the configuration, fixed by NewLogger
          encoder,  \* the console formatter can direct-encode (it is the JSON one)
          st,       \* the pooled states
          free,     \* states in globalPerPPool
          th,       \* per goroutine: where it is, and the builder it keeps
          calls,    \* history: every logging call, what it asked and what it got
          out,      \* lines the adapters accepted, in order
          flushed,  \* how many of them a Flush has made durable
          metrics,  \* metricsCollector, per logger, summed over the levels
          closed,   \* the adapters are closed
          admin,    \* how many Flush, Close and SetFormatter calls were made
          running   \* the process has not exited

poolVars == <<st, free>>
envVars  == <<setup, encoder, closed, admin>>
vars == <<envVars, poolVars, th, calls, out, flushed, metrics, running>>

Log(l)       == setup.log[l]
Discarding   == setup.adapters = "discard"
RecordCaller(l) == Log(l).caller /\ ~Discarding

\* A field of a call; call 0 stands for the bound context of the logger.
Field(l, c, k) == [logger |-> l, call |-> c, idx |-> k, raw |-> TRUE]
BoundOf(l) == IF Log(l).bound THEN <<Field(l, 0, 1)>> ELSE <<>>

\* sync.Pool.New
NewState == [epoch |-> 0, static |-> <<>>, limit |-> FieldCap, over |-> <<>>,
             direct |-> FALSE, bytes |-> <<>>, owner |-> "none", level |-> 0, site |-> 0]

Init ==
    /\ setup \in Setups
    /\ encoder \in IF setup.adapters = "console" THEN BOOLEAN ELSE {FALSE}
    /\ st = [s \in States |-> NewState]
    /\ free = States
    /\ th = [t \in Threads |-> [pc |-> "idle", kind |-> "none", logger |-> "none",
                                st |-> NoState, epoch |-> 0, call |-> 0, term |-> 0]]
    /\ calls = <<>>
    /\ out = <<>>
    /\ flushed = 0
    /\ metrics = [l \in Loggers |-> 0]
    /\ closed = FALSE
    /\ admin = 0
    /\ running = TRUE

-----------------------------------------------------------------------------
(* The pool (pool.go) and the pooled state                                  *)

\* get: the fields and the mode of the last use are dropped and the static
\* buffer gets its full length back.
Get(r) == [r EXCEPT !.static = <<>>, !.direct = FALSE, !.bytes = <<>>, !.limit = FieldCap]

\* put: Reset, no owner, and a new epoch.
Put(r) == [r EXCEPT !.static = <<>>, !.over = <<>>, !.owner = "none",
                    !.epoch = (@ + 1) % EpochMod]

Release(s, r) ==
    /\ st' = [st EXCEPT ![s] = Put(r)]
    /\ free' = free \union {s}


\* Mutant: NewLogger does not look at masking.
DirectIgnoresMasking(l) == setup.adapters = "console" /\ ~Log(l).sample

\* NewLogger: one raw-capable adapter and no transform of the entry.
DirectEligible(l) == setup.adapters = "console" /\ ~Log(l).mask /\ ~Log(l).sample

PrefillBound(r, l) == IF BoundOf(l) = <<>> THEN r ELSE [r EXCEPT !.static = BoundOf(l)]

AcquireState(r, l) ==
    LET g == [Get(r) EXCEPT !.direct = DirectEligible(l) /\ encoder]
    IN  IF g.direct THEN g ELSE PrefillBound(g, l)

CaptureState(r, l) == PrefillBound(Get(r), l)

\* The static buffer first, then the overflow slice.
CaptureField(r, f) ==
    IF Len(r.static) < r.limit THEN [r EXCEPT !.static = Append(@, f)]
                               ELSE [r EXCEPT !.over = Append(@, f)]

AddField(r, f) == IF r.direct THEN [r EXCEPT !.bytes = Append(@, f)] ELSE CaptureField(r, f)

-----------------------------------------------------------------------------
(* Writing one line                                                         *)

\* piiMasker.Apply reaches the static and the overflow fields and the message.
Masked(l, fs) == [i \in DOMAIN fs |-> [fs[i] EXCEPT !.raw = @ /\ ~Log(l).mask]]

\* A line as it reaches the adapters; asked: the sampler was consulted.
Line(l, c, lvl, fs, site, raw, asked) ==
    [logger |-> l, call |-> c, level |-> lvl, fields |-> fs, site |-> site,
     raw |-> raw, asked |-> asked]

Outcome == IF Discarding THEN "discarded" ELSE IF closed THEN "closed" ELSE "written"

\* The adapters take the line and the level's metric is counted.
Deliver(line) ==
    /\ out' = IF Outcome = "written" THEN Append(out, line) ELSE out
    /\ metrics' = [metrics EXCEPT ![line.logger] = @ + 1]

\* Call c of goroutine t ends at pc; h is the history with c in it.
Finish(t, h, c, lvl, outcome, pc) ==
    /\ calls' = [h EXCEPT ![c].level = lvl, ![c].outcome = outcome]
    /\ th' = [th EXCEPT ![t].pc = pc, ![t].term = c]


\* Mutant: a Fatal line exits at once.
ExitWithoutFlush(lvl) == IF lvl = FatalLevel THEN "exit" ELSE "idle"

\* Fatal goes on to flush and exit.  Panic unwinds into the application, which
\* may recover; a panic it does not recover only ends the behaviour.
TerminalPC(lvl) == IF lvl = FatalLevel THEN "flush" ELSE "idle"

Dropped(t, h, c, lvl, why) ==
    /\ Finish(t, h, c, lvl, why, "idle")
    /\ UNCHANGED <<out, metrics>>


\* Mutant: the direct branch does not count its line.
DirectWithoutMetrics(t, h, l, s, r, c, lvl) ==
    /\ out' = IF Outcome = "written"
              THEN Append(out, Line(l, c, lvl, BoundOf(l) \o r.bytes,
                                    IF RecordCaller(l) THEN c ELSE 0, TRUE, FALSE))
              ELSE out
    /\ Release(s, r)
    /\ Finish(t, h, c, lvl, Outcome, TerminalPC(lvl))
    /\ UNCHANGED metrics

\* The direct branch: header, caller, bound bytes and fields are bytes already.
DispatchDirect(t, h, l, s, r, c, lvl) ==
    /\ Deliver(Line(l, c, lvl, BoundOf(l) \o r.bytes, IF RecordCaller(l) THEN c ELSE 0,
                    TRUE, FALSE))
    /\ Release(s, r)
    /\ Finish(t, h, c, lvl, Outcome, TerminalPC(lvl))


\* Mutant: the call site stays in the pooled entry.
CaptureKeepsSite(t, h, l, s, r, c, lvl) ==
    LET site == IF RecordCaller(l) THEN c ELSE r.site
    IN  /\ Deliver(Line(l, c, lvl, Masked(l, r.static \o r.over), site, ~Log(l).mask,
                        Log(l).sample))
        /\ Release(s, [r EXCEPT !.limit = Len(r.static), !.site = site])
        /\ Finish(t, h, c, lvl, Outcome, TerminalPC(lvl))

\* The capture branch: reslice, call site, masking, write, and the site cleared.
DispatchCapture(t, h, l, s, r, c, lvl) ==
    LET site == IF RecordCaller(l) THEN c ELSE r.site
    IN  /\ Deliver(Line(l, c, lvl, Masked(l, r.static \o r.over), site, ~Log(l).mask,
                        Log(l).sample))
        /\ Release(s, [r EXCEPT !.limit = Len(r.static),
                                !.site = IF RecordCaller(l) THEN 0 ELSE @])
        /\ Finish(t, h, c, lvl, Outcome, TerminalPC(lvl))


\* Mutant: a filtered line keeps its state.
FilterWithoutPut(t, h, l, s, r, c, lvl) ==
    \/ /\ lvl < Log(l).level
       /\ free' = free \ {s}
       /\ UNCHANGED st
       /\ Dropped(t, h, c, lvl, "filtered")
    \/ /\ lvl >= Log(l).level
       /\ r.direct
       /\ DispatchDirect(t, h, l, s, r, c, lvl)
    \/ /\ lvl >= Log(l).level
       /\ ~r.direct
       /\ DispatchCapture(t, h, l, s, r, c, lvl)

\* dispatchLine of state s, whose content is r; the epoch was compared before.
DispatchLine(t, h, l, s, r, c, lvl) ==
    \/ /\ lvl < Log(l).level
       /\ Release(s, r)
       /\ Dropped(t, h, c, lvl, "filtered")
    \/ /\ lvl >= Log(l).level
       /\ r.direct
       /\ DispatchDirect(t, h, l, s, r, c, lvl)
    \/ /\ lvl >= Log(l).level
       /\ ~r.direct
       /\ Log(l).sample /\ lvl < FatalLevel
       /\ Release(s, [r EXCEPT !.limit = Len(r.static)])
       /\ Dropped(t, h, c, lvl, "sampled")
    \/ /\ lvl >= Log(l).level
       /\ ~r.direct
       /\ DispatchCapture(t, h, l, s, r, c, lvl)

-----------------------------------------------------------------------------
(* Message-only calls: the function setupFunctionPointers chose             *)

(* Fatal and Panic (terminal) have a route at every threshold.              *)
CallerRoute(l, terminal) == IF terminal /\ ~Log(l).bound THEN "real" ELSE "acquire"
SampledRoute(terminal) == IF terminal THEN "real" ELSE "sampled"
DirectRoute(l, terminal) ==
    IF ~terminal THEN "direct" ELSE IF Log(l).bound THEN "capture" ELSE "real"
RegularRoute(terminal) == IF terminal THEN "real" ELSE "specialized"

Route(l, lvl) ==
    LET terminal == lvl >= FatalLevel
    IN  IF ~terminal /\ lvl < Log(l).level THEN "noop"
        ELSE IF RecordCaller(l) THEN CallerRoute(l, terminal)
        ELSE IF Log(l).bound /\ ~DirectEligible(l) /\ ~Discarding THEN "capture"
        ELSE IF Log(l).sample THEN SampledRoute(terminal)
        ELSE IF DirectEligible(l) THEN DirectRoute(l, terminal)
        ELSE IF Discarding THEN "discard"
        ELSE RegularRoute(terminal)

\* writeEntry: masking, the adapters, the metric.
WriteEntry(t, h, l, c, lvl, site, asked) ==
    /\ Deliver(Line(l, c, lvl, <<>>, site, ~Log(l).mask, asked))
    /\ Finish(t, h, c, lvl, Outcome, TerminalPC(lvl))
    /\ UNCHANGED poolVars

\* realFatal and realPanic; realFatal goes on to flush and exit.
Real(t, h, l, c, lvl) ==
    WriteEntry(t, h, l, c, lvl, IF RecordCaller(l) THEN c ELSE 0, FALSE)

\* infoNoMaskOne and its siblings, and realTrace: no call site.
Specialized(t, h, l, c, lvl) == WriteEntry(t, h, l, c, lvl, 0, FALSE)

\* logSampled: written or dropped as the sampler says.
LogSampled(t, h, l, c, lvl) ==
    \/ WriteEntry(t, h, l, c, lvl, 0, TRUE)
    \/ Dropped(t, h, c, lvl, "sampled") /\ UNCHANGED poolVars

\* The discard functions count the line; a Fatal one exits without a flush.
DiscardEntry(t, h, l, c, lvl) ==
    /\ Deliver(Line(l, c, lvl, <<>>, 0, TRUE, FALSE))
    /\ Finish(t, h, c, lvl, Outcome, IF lvl = FatalLevel THEN "exit" ELSE TerminalPC(lvl))
    /\ UNCHANGED poolVars

\* logDirect: bytes through a pooled buffer, or the capture path without encoder.
LogDirect(t, h, l, c, lvl) ==
    \E s \in free :
        IF encoder THEN DispatchDirect(t, h, l, s, Get(st[s]), c, lvl)
                   ELSE DispatchLine(t, h, l, s, CaptureState(st[s], l), c, lvl)

LogBoundCapture(t, h, l, c, lvl) ==
    \E s \in free : DispatchLine(t, h, l, s, CaptureState(st[s], l), c, lvl)

LogCaller(t, h, l, c, lvl) ==
    \E s \in free : DispatchLine(t, h, l, s, AcquireState(st[s], l), c, lvl)

\* hot.infoFunc and its siblings.
HotFunc(t, h, l, c, lvl) ==
    LET route == Route(l, lvl)
    IN  \/ route = "noop" /\ Dropped(t, h, c, lvl, "filtered") /\ UNCHANGED poolVars
        \/ route = "discard" /\ DiscardEntry(t, h, l, c, lvl)
        \/ route = "real" /\ Real(t, h, l, c, lvl)
        \/ route = "specialized" /\ Specialized(t, h, l, c, lvl)
        \/ route = "sampled" /\ LogSampled(t, h, l, c, lvl)
        \/ route = "direct" /\ LogDirect(t, h, l, c, lvl)
        \/ route = "capture" /\ LogBoundCapture(t, h, l, c, lvl)
        \/ route = "acquire" /\ LogCaller(t, h, l, c, lvl)

-----------------------------------------------------------------------------
(* The application's calls                                                  *)

\* The builder t keeps has not been finished.
Open(t) == th[t].kind # "none" /\ calls[th[t].call].outcome = "open"

CanBegin(t) == running /\ th[t].pc = "idle" /\ ~Open(t) /\ Len(calls) < MaxCalls

NewCall(l) == Append(calls, [logger |-> l, level |-> 0, fields |-> 0, outcome |-> "open"])

\* logger.Info(msg) and its siblings.
Message(t, l, lvl) ==
    /\ CanBegin(t)
    /\ HotFunc(t, NewCall(l), l, Len(calls) + 1, lvl)
    /\ UNCHANGED <<envVars, flushed, running>>

\* t keeps a builder of logger l for the new call, with state s of content r.
Keep(t, kind, l, s, epoch) ==
    th' = [th EXCEPT ![t] = [@ EXCEPT !.kind = kind, !.logger = l, !.st = s,
                                      !.epoch = epoch, !.call = Len(calls) + 1]]

\* InfoLine() and its siblings: a disabled level opens nothing.
OpenLine(t, l, lvl) ==
    /\ CanBegin(t)
    /\ lvl < FatalLevel
    /\ \/ /\ lvl < Log(l).level
          /\ calls' = [NewCall(l) EXCEPT ![Len(calls) + 1].level = lvl,
                                         ![Len(calls) + 1].outcome = "filtered"]
          /\ UNCHANGED <<poolVars, th>>
       \/ /\ lvl >= Log(l).level
          /\ calls' = NewCall(l)
          /\ \E s \in free :
                LET r == [AcquireState(st[s], l) EXCEPT !.owner = l, !.level = lvl]
                IN  /\ st' = [st EXCEPT ![s] = r]
                    /\ free' = free \ {s}
                    /\ Keep(t, "line", l, s, r.epoch)
    /\ UNCHANGED <<envVars, out, flushed, metrics, running>>

\* logger.WithField, and WithError of an error: a state with its first field.
WithField(t, l) ==
    /\ CanBegin(t)
    /\ calls' = [NewCall(l) EXCEPT ![Len(calls) + 1].fields = 1]
    /\ \E s \in free :
          LET r == CaptureState(st[s], l)
          IN  /\ st' = [st EXCEPT ![s] =
                           [r EXCEPT !.static = Append(@, Field(l, Len(calls) + 1, 1))]]
              /\ free' = free \ {s}
              /\ Keep(t, "classic", l, s, r.epoch)
    /\ UNCHANGED <<envVars, out, flushed, metrics, running>>

\* Typed() and WithError(nil): a builder that holds no state yet.
OpenEmpty(t, l, kind) ==
    /\ CanBegin(t)
    /\ kind = "typed" \/ (kind = "classic" /\ l \in NilErrorLoggers)
    /\ calls' = NewCall(l)
    /\ Keep(t, kind, l, NoState, 0)
    /\ UNCHANGED <<envVars, poolVars, out, flushed, metrics, running>>

\* FieldBuilder.WithField, and the setters that call it: its fields are always
\* captured, so the line takes the capture path whatever the logger.
BuilderField(r, f) == CaptureField(r, f)

\* A field method of a builder that still has no state: the typed builder
\* acquires one, FieldBuilder.WithField takes one from the pool as it is.
FirstField(t) ==
    /\ running /\ th[t].pc = "idle" /\ Open(t) /\ th[t].st = NoState
    /\ \E s \in free :
          LET l == th[t].logger
              c == th[t].call
              f == Field(l, c, 1)
              r == IF th[t].kind = "typed" THEN AddField(AcquireState(st[s], l), f)
                                           ELSE BuilderField(Get(st[s]), f)
          IN  /\ st' = [st EXCEPT ![s] = r]
              /\ free' = free \ {s}
              /\ th' = [th EXCEPT ![t].st = s, ![t].epoch = r.epoch]
              /\ calls' = [calls EXCEPT ![c].fields = 1]
    /\ UNCHANGED <<envVars, out, flushed, metrics, running>>

\* Line.live()
Live(t) == th[t].st # NoState /\ st[th[t].st].epoch = th[t].epoch

\* A field method of a builder that has a state.  Only the Line methods look at
\* the epoch: the others write into whatever the state is now.
NextField(t) ==
    /\ running /\ th[t].pc = "idle" /\ th[t].st # NoState
    /\ Open(t) \/ th[t].kind \in StaleFieldKinds
    /\ calls[th[t].call].fields < MaxFields
    /\ LET c == th[t].call
           f == Field(th[t].logger, c, calls[c].fields + 1)
           r == st[th[t].st]
       IN  IF th[t].kind = "line" /\ ~Live(t)
           THEN UNCHANGED <<st, calls>>
           ELSE /\ st' = [st EXCEPT ![th[t].st] =
                             IF th[t].kind = "classic" THEN BuilderField(r, f)
                                                       ELSE AddField(r, f)]
                /\ calls' = [calls EXCEPT ![c].fields = @ + 1]
    /\ UNCHANGED <<envVars, free, th, out, flushed, metrics, running>>

\* Mutant: only Msg and Send compare epochs.
StaleLineOnly(t) == th[t].st # NoState /\ th[t].kind = "line" /\ ~Live(t)

\* dispatchLine finds that the state was dispatched and recycled since.
Stale(t) == th[t].st # NoState /\ st[th[t].st].epoch # th[t].epoch

\* A terminal of a builder without fields: the message-only path.
MessageOnly(t, lvl) ==
    /\ Open(t) /\ th[t].st = NoState
    /\ HotFunc(t, calls, th[t].logger, th[t].call, lvl)

\* Msg and Send write at the level the Line was opened with, for its owner.
FinishLine(t, lvl) ==
    LET r == st[th[t].st]
    IN  lvl = r.level /\ DispatchLine(t, calls, r.owner, th[t].st, r, th[t].call, lvl)

\* A terminal: Info(msg) ... on the builders, Msg and Send on a Line.  On a
\* builder whose state has moved on it does nothing.
Terminal(t, lvl) ==
    /\ running /\ th[t].pc = "idle" /\ th[t].kind # "none"
    /\ \/ MessageOnly(t, lvl)
       \/ /\ Stale(t)
          /\ UNCHANGED <<poolVars, th, calls, out, metrics>>
       \/ /\ th[t].st # NoState /\ ~Stale(t)
          /\ IF th[t].kind = "line" THEN FinishLine(t, lvl)
             ELSE DispatchLine(t, calls, th[t].logger, th[t].st, st[th[t].st], th[t].call, lvl)
    /\ UNCHANGED <<envVars, flushed, running>>

-----------------------------------------------------------------------------
(* Fatal, and the operations on the adapters                                *)

\* Mutant: a line too many counts as flushed.
FlushOneTooMany == flushed' = Len(out) + 1

\* Logger.Flush: every adapter.
FlushAll == flushed' = Len(out)

FatalFlush(t) ==
    /\ running /\ th[t].pc = "flush"
    /\ FlushAll
    /\ th' = [th EXCEPT ![t].pc = "exit"]
    /\ UNCHANGED <<envVars, poolVars, calls, out, metrics, running>>

\* exit(1): os.Exit, or the ExitFunc.
Exit(t) ==
    /\ running /\ th[t].pc = "exit"
    /\ running' = setup.returns
    /\ th' = [th EXCEPT ![t].pc = IF setup.returns THEN "idle" ELSE "exit"]
    /\ UNCHANGED <<envVars, poolVars, calls, out, flushed, metrics>>

Administer == running /\ admin < MaxAdmin /\ admin' = admin + 1

Flush ==
    /\ Administer
    /\ FlushAll
    /\ UNCHANGED <<setup, encoder, closed, poolVars, th, calls, out, metrics, running>>

Close ==
    /\ Administer
    /\ closed' = TRUE
    /\ UNCHANGED <<setup, encoder, poolVars, th, calls, out, flushed, metrics, running>>

\* console SetFormatter, to or from a formatter that can direct-encode.
SetFormatter ==
    /\ Administer /\ setup.adapters = "console"
    /\ encoder' = ~encoder
    /\ UNCHANGED <<setup, closed, poolVars, th, calls, out, flushed, metrics, running>>

Next ==
    \/ \E t \in Threads :
          \/ \E l \in Loggers, lvl \in LogLevels : Message(t, l, lvl) \/ OpenLine(t, l, lvl)
          \/ \E l \in Loggers : WithField(t, l)
          \/ \E l \in Loggers, kind \in {"typed", "classic"} : OpenEmpty(t, l, kind)
          \/ FirstField(t)
          \/ NextField(t)
          \/ \E lvl \in LogLevels : Terminal(t, lvl)
          \/ FatalFlush(t)
          \/ Exit(t)
    \/ Flush
    \/ Close
    \/ SetFormatter

Spec == Init /\ [][Next]_vars
-----------------------------------------------------------------------------
(* Properties                                                               *)

FieldType == [logger : Loggers, call : 0 .. MaxCalls, idx : 1 .. MaxFields + 1, raw : BOOLEAN]
PerPState == [epoch : 0 .. EpochMod - 1, static : Seq(FieldType), limit : 0 .. FieldCap,
              over : Seq(FieldType), direct : BOOLEAN, bytes : Seq(FieldType),
              owner : Loggers \union {"none"}, level : Levels, site : 0 .. MaxCalls]
Goroutine == [pc : {"idle", "flush", "exit"}, kind : Kinds \union {"none"},
              logger : Loggers \union {"none"}, st : States \union {NoState},
              epoch : 0 .. EpochMod - 1, call : 0 .. MaxCalls, term : 0 .. MaxCalls]
CallType == [logger : Loggers, level : Levels, fields : 0 .. MaxFields + 1,
             outcome : {"open", "filtered", "sampled", "discarded", "closed", "written"}]
LineType == [logger : Loggers, call : 1 .. MaxCalls, level : Levels, fields : Seq(FieldType),
             site : 0 .. MaxCalls, raw : BOOLEAN, asked : BOOLEAN]

\* The variables have their types, and no state holds more fields than its buffer.
Types ==
    /\ setup \in Setups
    /\ encoder \in BOOLEAN /\ closed \in BOOLEAN /\ running \in BOOLEAN
    /\ free \subseteq States
    /\ st \in [States -> PerPState]
    /\ \A s \in States : Len(st[s].static) <= st[s].limit
    /\ th \in [Threads -> Goroutine]
    /\ calls \in Seq(CallType) /\ Len(calls) <= MaxCalls
    /\ out \in Seq(LineType)
    /\ flushed \in 0 .. Len(out)
    /\ metrics \in [Loggers -> Nat]

\* Types of the variables of the logger model; no metric exceeds the calls.
TypeOK == Types /\ metrics \in [Loggers -> 0 .. MaxCalls]

\* What a line of call c must carry: the bound context, then the call's own fields.
AskedFields(c) ==
    BoundOf(calls[c].logger) \o [k \in 1 .. calls[c].fields |-> Field(calls[c].logger, c, k)]

Unmasked(fs) == [i \in DOMAIN fs |-> [fs[i] EXCEPT !.raw = TRUE]]

\* Whatever route and builder a call takes and whoever used the pooled state
\* before (setupFunctionPointers, dispatchLine, perPPool), its line carries
\* its logger's bound context, exactly its own fields in order, and its own
\* call site when the logger records call sites and none when it does not.
LinesAreWhatWasAsked ==
    \A i \in DOMAIN out :
        LET ln == out[i]
        IN  /\ ln.logger = calls[ln.call].logger
            /\ Unmasked(ln.fields) = AskedFields(ln.call)
            /\ ln.site = IF RecordCaller(ln.logger) THEN ln.call ELSE 0

\* No route around a transform: with masking on, no field, bound context or
\* message reaches an adapter unmasked (the security invariant stated at
\* Logger.rawWriter), and with sampling on, no line below Fatal is written
\* without the sampler's consent.
TransformsNeverBypassed ==
    \A i \in DOMAIN out :
        LET ln == out[i]
        IN  /\ Log(ln.logger).mask =>
                  ~ln.raw /\ \A k \in DOMAIN ln.fields : ~ln.fields[k].raw
            /\ Log(ln.logger).sample /\ ln.level < FatalLevel => ln.asked

\* A call ends once, and only in the way its level, its logger and the state
\* of the adapters allow: nothing at or above the threshold is lost without
\* the sampler or a closed adapter, Fatal and Panic are never sampled away,
\* a second terminal adds no second line, and an unfinished builder still
\* owns its state (the epoch guard of dispatchLine and Line.live).  The metrics
\* count exactly the lines handed to the adapters, whichever of the specialised
\* functions wrote them; filtered and sampled lines count nowhere
\* (metricsCollector).
EveryCallAccounted ==
    /\ \A c \in DOMAIN calls :
          LET k == calls[c]
              lines == {i \in DOMAIN out : out[i].call = c}
          IN  /\ k.outcome = "filtered" => k.level < Log(k.logger).level
              /\ k.outcome = "sampled" => Log(k.logger).sample /\ k.level < FatalLevel
              /\ k.outcome = "closed" => closed
              /\ k.outcome = "written" /\ k.level < FatalLevel => k.level >= Log(k.logger).level
              /\ Cardinality(lines) = IF k.outcome = "written" THEN 1 ELSE 0
    /\ \A t \in Threads : Open(t) /\ th[t].st # NoState => Live(t)
    /\ \A l \in Loggers :
          metrics[l] = Cardinality({c \in DOMAIN calls :
                         calls[c].logger = l /\ calls[c].outcome \in {"written", "discarded", "closed"}})

\* Every state is in the pool or belongs to exactly one unfinished builder:
\* filtered, sampled, panicking and exiting lines give theirs back (put on
\* every path of dispatchLine), and none is handed to two builders.
PoolAccounting ==
    LET holders(s) == {t \in Threads : Open(t) /\ th[t].st = s}
    IN  \A s \in States : Cardinality(holders(s)) = IF s \in free THEN 0 ELSE 1

\* When a Fatal call is about to leave the process, its line and all lines
\* written before it have been flushed, on the direct path, the capture path
\* and the message-only path (realFatal, the shared tail of dispatchLine).
FatalLineDurable ==
    \A t \in Threads : th[t].pc = "exit" =>
        \A i \in DOMAIN out : out[i].call = th[t].term => i <= flushed

\* Every line of a child logger begins with the child's bound context
\* (README: "Bind fields once and log them on every line").
BoundOnEveryLine ==
    \A i \in DOMAIN out :
        Log(out[i].logger).bound => /\ out[i].fields # <<>>
                                   /\ out[i].fields[1].call = 0
-----------------------------------------------------------------------------
(* The invariant from which the properties follow.                          *)

\* Calls that have ended, and those of logger l whose line reached the adapters.
Ended == {c \in DOMAIN calls : calls[c].outcome # "open"}
Delivered(l) == {c \in DOMAIN calls : /\ calls[c].logger = l
                                      /\ calls[c].outcome \in {"written", "discarded", "closed"}}

\* Whose a state is.  A state counts the calls that were dispatched from it, which
\* are fewer than EpochMod, so that a builder that was finished never finds its own
\* epoch again.
HoldInv ==
    /\ \A t \in Threads :
          /\ th[t].kind = "none" => th[t].st = NoState
          /\ th[t].kind # "none" => /\ th[t].call \in DOMAIN calls /\ th[t].logger \in Loggers
                                    /\ calls[th[t].call].logger = th[t].logger
          /\ Open(t) /\ th[t].st # NoState => th[t].st \notin free /\ Live(t)
          /\ th[t].kind # "none" /\ ~Open(t) /\ th[t].st # NoState => th[t].epoch < st[th[t].st].epoch
    /\ \A t, u \in Threads : t # u /\ th[t].kind # "none" /\ th[u].kind # "none" =>
          /\ th[t].call # th[u].call
          /\ Open(t) /\ Open(u) /\ th[t].st # NoState => th[t].st # th[u].st
    /\ \A s \in States \ free : \E t \in Threads : Open(t) /\ th[t].st = s
    /\ \A s \in States : st[s].epoch <= Cardinality(Ended)

\* How calls end, and the lines and counts they leave.
AccountInv ==
    /\ \A c \in DOMAIN calls :
          LET k == calls[c]
          IN  /\ k.outcome = "filtered" => k.level < Log(k.logger).level
              /\ k.outcome = "sampled" => Log(k.logger).sample /\ k.level < FatalLevel
              /\ k.outcome = "closed" => closed
              /\ k.outcome = "written" /\ k.level < FatalLevel => k.level >= Log(k.logger).level
              /\ k.outcome = "written" => \E i \in DOMAIN out : out[i].call = c
    /\ \A i \in DOMAIN out : /\ out[i].call \in DOMAIN calls /\ calls[out[i].call].outcome = "written"
                             /\ \A j \in DOMAIN out : out[j].call = out[i].call => j = i
    /\ \A l \in Loggers : metrics[l] = Cardinality(Delivered(l))

\* Only a state whose logger lets its lines bypass the transforms is direct.
TransformInv ==
    /\ TransformsNeverBypassed
    /\ \A t \in Threads : Open(t) =>
          /\ th[t].kind = "line" => th[t].st # NoState /\ st[th[t].st].owner = th[t].logger
          /\ th[t].st # NoState /\ st[th[t].st].direct => DirectEligible(th[t].logger)

\* A goroutine flushes and exits for a call that has ended.
ExitInv ==
    /\ FatalLineDurable
    /\ \A t \in Threads : th[t].pc # "idle" => th[t].term \in Ended

\* What a state holds is what its builder was given, behind the bound context.
OwnFields(c) == [k \in 1 .. calls[c].fields |-> Field(calls[c].logger, c, k)]
ContentInv ==
    /\ LinesAreWhatWasAsked
    /\ \A s \in States : /\ st[s].site = 0
                         /\ s \in free => st[s].over = <<>>
                         /\ st[s].over # <<>> => Len(st[s].static) = st[s].limit
    /\ \A t \in Threads : Open(t) =>
          /\ th[t].st = NoState => /\ calls[th[t].call].fields = 0
                                   /\ th[t].kind = "classic" => ~Log(th[t].logger).bound
          /\ th[t].st # NoState =>
                LET r == st[th[t].st]
                IN  /\ th[t].kind = "classic" => ~r.direct
                    /\ IF r.direct THEN r.bytes = OwnFields(th[t].call)
                                   ELSE r.static \o r.over = AskedFields(th[t].call)

\* What an application has to keep to: no fields for a finished builder other than a
\* Line, and no WithError(nil) on a logger with a bound context.
UsedAsDocumented ==
    /\ StaleFieldKinds \subseteq {"line"}
    /\ \A S \in Setups : \A l \in NilErrorLoggers : ~S.log[l].bound

LoggerInv ==
    /\ Types /\ HoldInv /\ AccountInv /\ TransformInv /\ ExitInv
    /\ UsedAsDocumented => ContentInv
=============================================================================
