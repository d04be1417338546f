----------------------------- MODULE FocusList ------------------------------
(***************************************************************************)
(* What the calls of AudioInterruptService make of the focus list, as      *)
(* operators. A world is what a call works on:                             *)
(*   type     what each stream is (audioFocusType)                         *)
(*   list     audioFocusInfoList: entries [id, state] in order of arrival  *)
(*   mode     per process: its session's concurrency mode, or "none"       *)
(*   members  per process: the streams its session knows (interruptMap_)   *)
(*   sent     per stream: the events given to the handler for it           *)
(* The calls hold mutex_ from beginning to end, and all streams are in the *)
(* default zone. The build is the one without FEATURE_APPGALLERY.          *)
(***************************************************************************)
EXTENDS FocusTable, Naturals, Sequences, SequencesExt

CONSTANTS
  Streams,           \* sessionIds
  Pid,               \* [Streams -> processes]
  ShareMode,         \* the streams whose interrupt mode is SHARE_MODE
  ConcurrentSources  \* [Streams -> SUBSET Sources]: currencySources

Pids == {Pid[s] : s \in Streams}

Rank == [ACTIVE |-> 0, DUCK |-> 1, PAUSE |-> 2, STOP |-> 3, PLACEHOLDER |-> 4]
Worst(states) == CHOOSE x \in states : \A y \in states : Rank[y] <= Rank[x]
HINT_STATE_MAP == [NONE |-> "ACTIVE", DUCK |-> "DUCK", PAUSE |-> "PAUSE"]

Listed(w, s) == \E i \in DOMAIN w.list : w.list[i].id = s
StateOf(w, s) == w.list[CHOOSE i \in DOMAIN w.list : w.list[i].id = s].state
Nothing == [s \in Streams |-> <<>>]
Send(w, s, hint) == [w EXCEPT !.sent[s] = Append(@, hint)]

(* What is left of a list when some streams go. *)
Remaining(entries, gone) ==
  FoldLeft(LAMBDA left, e : IF e.id \in gone THEN left ELSE Append(left, e), <<>>, entries)
Without(w, s) == [w EXCEPT !.list = Remaining(@, {s})]
SetState(w, s, st) ==
  [w EXCEPT !.list = [i \in DOMAIN @ |-> IF @[i].id = s THEN [@[i] EXCEPT !.state = st] ELSE @[i]]]

-----------------------------------------------------------------------------
(* Whether two streams may mix, and what the table says of them.           *)
Entry(w, cur, inc) == focusCfgMap[<<w.type[cur], w.type[inc]>>]

IsSameAppInShareMode(a, b) == {a, b} \subseteq ShareMode /\ Pid[a] = Pid[b]

IsAudioSourceConcurrency(w, a, b) ==
  w.type[a] \in ConcurrentSources[b] \/ w.type[b] \in ConcurrentSources[a]

(* SESSION_TYPE_MAP; VOICE_RING and the sources have no session type.      *)
SessionTypes ==
  {{"ALARM", "RING"}, {"VOICE_CALL", "VOICE_CALL_ASSISTANT"}, {"VOICE_COMMUNICATION"},
   {"MUSIC", "MOVIE", "GAME", "SPEECH", "NAVIGATION", "VOICE_MESSAGE"},
   {"SYSTEM", "SYSTEM_ENFORCED", "ACCESSIBILITY", "ULTRASONIC"},
   {"NOTIFICATION"}, {"DTMF"}, {"VOICE_ASSISTANT"}}
IsSameTypeForAudioSession(t, u) == \E c \in SessionTypes : {t, u} \subseteq c

IsAudioSessionActivated(w, p) == w.mode[p] # "none"

Acts(e, target) == e.actionOn = target /\ e.hint \in {"PAUSE", "STOP", "DUCK"}

(* A session that mixes lets its streams be heard with others, but a       *)
(* stream of lower priority only with its own kind.                        *)
CanMixForSession(w, inc, act) ==
  LET e == Entry(w, act, inc)
      sameType == IsSameTypeForAudioSession(w.type[inc], w.type[act])
      Mixes(p) == w.mode[p] = "MIX_WITH_OTHERS"
  IN /\ ~(e.isReject /\ w.type[inc] \in Sources)
     /\ \/ Mixes(Pid[inc]) /\ (e.isReject \/ Acts(e, "INCOMING") => sameType)
        \/ Mixes(Pid[act]) /\ (Acts(e, "CURRENT") => sameType)

(* The session of the incoming stream may soften what happens to others.   *)
UpdateHintTypeForExistingSession(w, inc, e) ==
  LET others == w.mode[Pid[inc]]
  IN CASE others = "DUCK_OTHERS" /\ Acts(e, "CURRENT") -> "DUCK"
       [] others = "PAUSE_OTHERS" /\ Acts(e, "CURRENT") /\ e.hint # "DUCK" -> "PAUSE"
       [] OTHER -> e.hint

-----------------------------------------------------------------------------
(* A stream leaves its session; the session ends with its last stream if   *)
(* that one was stopped by another.                                        *)
Forget(w, s) == [w EXCEPT !.members[Pid[s]] = @ \ {s}]

HandleLowPriorityEvent(w, s) ==
  LET p == Pid[s]
      left == Forget(w, s)
  IN IF IsAudioSessionActivated(w, p) /\ left.members[p] = {}
     THEN [left EXCEPT !.mode[p] = "none"] ELSE left

Placeholders(w, p) ==
  {x \in Streams : Pid[x] = p /\ Listed(w, x) /\ StateOf(w, x) = "PLACEHOLDER"}

(* mutant: a stream that asks again is not a new request *)
OldEntryStays(w, s) == Forget([w EXCEPT !.list = Remaining(@, Placeholders(w, Pid[s]))], s)

(* ProcessAudioScene: the stream's old entry and its process's placeholder *)
(* go, and so does the stream from its session - also where the list is    *)
(* left empty and the stream is about to be its only entry.                *)
ProcessAudioScene(w, s) ==
  Forget([w EXCEPT !.list = Remaining(@, {s} \cup Placeholders(w, Pid[s]))], s)

(* The state the incoming stream gets beside the others: the worst that an *)
(* entry of the table asks for; STOP if one of them rejects it; INVALID if *)
(* the table has no entry for a pair, which ends the call at once.         *)
ProcessFocusEntry(w, s) ==
  LET Id(i) == w.list[i].id
      others == {i \in DOMAIN w.list : ~IsSameAppInShareMode(s, Id(i))}
      missing == {i \in others : <<w.type[Id(i)], w.type[s]>> \in Missing}
      asking == {i \in others \ missing :
                   LET e == Entry(w, Id(i), s)
                   IN /\ e.actionOn # "CURRENT" /\ w.list[i].state # "PLACEHOLDER"
                      /\ ~CanMixForSession(w, s, Id(i))
                      /\ ~(e.hint \in {"PAUSE", "STOP"} /\ IsAudioSourceConcurrency(w, Id(i), s))}
      rejecting == {i \in asking : Entry(w, Id(i), s).isReject}
  IN IF \E i \in missing : \A j \in rejecting : i < j THEN "INVALID"
     ELSE IF rejecting # {} THEN "STOP"
     ELSE Worst({"ACTIVE"} \cup {HINT_STATE_MAP[Entry(w, Id(i), s).hint] : i \in asking})

(* mutant: a ducked stream is not paused any more *)
DuckedStayDucked(w, s, e) ==
  LET entry == Entry(w, e.id, s)
      hint == UpdateHintTypeForExistingSession(w, s, entry)
      concurrent == IsAudioSourceConcurrency(w, e.id, s)
  IN IF \/ entry.actionOn # "CURRENT" \/ e.state = "PLACEHOLDER"
        \/ IsSameAppInShareMode(s, e.id) \/ CanMixForSession(w, s, e.id)
     THEN w
     ELSE CASE hint = "STOP" /\ ~concurrent -> Send(HandleLowPriorityEvent(Without(w, e.id), e.id), e.id, "STOP")
            [] hint = "PAUSE" /\ ~concurrent /\ e.state = "ACTIVE" -> Send(SetState(w, e.id, "PAUSE"), e.id, "PAUSE")
            [] hint = "DUCK" /\ e.state = "ACTIVE" -> Send(SetState(w, e.id, "DUCK"), e.id, "DUCK")
            [] OTHER -> w

(* What the incoming stream does to one existing entry.                    *)
ProcessExistInterrupt(w, s, e) ==
  LET entry == Entry(w, e.id, s)
      hint == UpdateHintTypeForExistingSession(w, s, entry)
      concurrent == IsAudioSourceConcurrency(w, e.id, s)
  IN IF \/ entry.actionOn # "CURRENT" \/ e.state = "PLACEHOLDER"
        \/ IsSameAppInShareMode(s, e.id) \/ CanMixForSession(w, s, e.id)
     THEN w
     ELSE CASE hint = "STOP" /\ ~concurrent -> Send(HandleLowPriorityEvent(Without(w, e.id), e.id), e.id, "STOP")
            [] hint = "PAUSE" /\ ~concurrent /\ e.state \in {"ACTIVE", "DUCK"} -> Send(SetState(w, e.id, "PAUSE"), e.id, "PAUSE")
            [] hint = "DUCK" /\ e.state = "ACTIVE" -> Send(SetState(w, e.id, "DUCK"), e.id, "DUCK")
            [] OTHER -> w

ProcessActiveInterrupt(w, s) ==
  FoldLeft(LAMBDA acc, e : ProcessExistInterrupt(acc, s, e), w, w.list)

AddToAudioFocusInfoList(w, s, state) ==
  [w EXCEPT !.list = Append(@, [id |-> s, state |-> state]),
            !.members[Pid[s]] = IF IsAudioSessionActivated(w, Pid[s]) THEN @ \cup {s} ELSE @]

ActivateAudioInterrupt(w, s) ==
  LET base == ProcessAudioScene(w, s)
      state == ProcessFocusEntry(base, s)
      added == AddToAudioFocusInfoList(ProcessActiveInterrupt(base, s), s, state)
  IN IF base.list = <<>> THEN [base EXCEPT !.list = <<[id |-> s, state |-> "ACTIVE"]>>]
     ELSE CASE state = "INVALID" -> base
            [] state = "STOP" -> Send(base, s, "STOP")
            [] state = "ACTIVE" -> added
            [] OTHER -> Send(added, s, state)

(* Whether the call that made this world returned SUCCESS.                 *)
Granted(w, s) == Listed(w, s) /\ StateOf(w, s) \in {"ACTIVE", "DUCK"}

-----------------------------------------------------------------------------

(* SimulateFocusEntry: the states the entries would have if their streams  *)
(* had come one after the other. A stream that has to pause does nothing   *)
(* to the others.                                                          *)
Arrive(w, done, e) ==
  LET heard == {i \in DOMAIN done : /\ done[i].state \notin {"PAUSE", "PLACEHOLDER"}
                                    /\ ~IsSameAppInShareMode(e.id, done[i].id)
                                    /\ ~CanMixForSession(w, e.id, done[i].id)}
      Hint(i) == UpdateHintTypeForExistingSession(w, e.id, Entry(w, done[i].id, e.id))
      OnExisting(i) == Entry(w, done[i].id, e.id).actionOn = "CURRENT"
      says == {i \in heard : Hint(i) # "STOP"}
      state == Worst({"ACTIVE"} \cup {HINT_STATE_MAP[Hint(i)] : i \in {j \in says : ~OnExisting(j)}})
      moved == [i \in DOMAIN done |->
                  IF i \in says /\ OnExisting(i)
                  THEN [done[i] EXCEPT !.state = HINT_STATE_MAP[Hint(i)]] ELSE done[i]]
  IN Append(IF state = "PAUSE" THEN done ELSE moved,
            [e EXCEPT !.state = IF @ = "PLACEHOLDER" THEN @ ELSE state])

SimulateFocusEntry(w) == FoldLeft(LAMBDA done, e : Arrive(w, done, e), <<>>, w.list)

(* mutant: a stream told to resume is taken to play again *)
ResumedStays(w, s, old, new) ==
  CASE old = "PAUSE" /\ new \in {"ACTIVE", "DUCK"} -> Send(SetState(w, s, new), s, "RESUME")
    [] old = "DUCK" /\ new = "ACTIVE" -> Send(SetState(w, s, new), s, "UNDUCK")
    [] old = "ACTIVE" /\ new = "DUCK" -> Send(SetState(w, s, new), s, "DUCK")
    [] old = "DUCK" /\ new = "PAUSE" -> Send(Send(SetState(w, s, new), s, "UNDUCK"), s, "PAUSE")
    [] old = "ACTIVE" /\ new = "PAUSE" -> Send(SetState(w, s, new), s, "PAUSE")
    [] OTHER -> w

(* ResumeAudioFocusList: the changes are announced. A stream that was      *)
(* paused leaves the list; its application is told to start it again.      *)
SendInterruptEvent(w, s, old, new) ==
  CASE old = "PAUSE" /\ new \in {"ACTIVE", "DUCK"} -> Send(Without(w, s), s, "RESUME")
    [] old = "DUCK" /\ new = "ACTIVE" -> Send(SetState(w, s, new), s, "UNDUCK")
    [] old = "ACTIVE" /\ new = "DUCK" -> Send(SetState(w, s, new), s, "DUCK")
    [] old = "DUCK" /\ new = "PAUSE" -> Send(Send(SetState(w, s, new), s, "UNDUCK"), s, "PAUSE")
    [] old = "ACTIVE" /\ new = "PAUSE" -> Send(SetState(w, s, new), s, "PAUSE")
    [] OTHER -> w

ResumeAudioFocusList(w, isSessionTimeout) ==
  LET new == SimulateFocusEntry(w)
      One(acc, i) ==
        IF isSessionTimeout /\ w.list[i].state = "PAUSE" /\ new[i].state \in {"ACTIVE", "DUCK"}
        THEN Send(Without(acc, w.list[i].id), w.list[i].id, "STOP")
        ELSE SendInterruptEvent(acc, w.list[i].id, w.list[i].state, new[i].state)
  IN FoldLeft(One, w, [i \in DOMAIN w.list |-> i])

(* mutant: only a stream that sounds lets others resume *)
PausedLeavesQuietly(w, s, isSessionTimeout) ==
  LET left == Forget(w, s)
  IN IF ~Listed(w, s) THEN left
     ELSE IF IsAudioSessionActivated(w, Pid[s]) /\ left.members[Pid[s]] = {} THEN SetState(left, s, "PLACEHOLDER")
     ELSE IF StateOf(w, s) = "DUCK" THEN Without(left, s)
     ELSE ResumeAudioFocusList(Without(left, s), isSessionTimeout)

(* DeactivateAudioInterruptInternal. The last stream of a session leaves a *)
(* placeholder, which goes with the session.                               *)
DeactivateAudioInterrupt(w, s, isSessionTimeout) ==
  LET left == Forget(w, s)
  IN IF ~Listed(w, s) THEN left
     ELSE IF IsAudioSessionActivated(w, Pid[s]) /\ left.members[Pid[s]] = {} THEN SetState(left, s, "PLACEHOLDER")
     ELSE ResumeAudioFocusList(Without(left, s), isSessionTimeout)

-----------------------------------------------------------------------------
(* Sessions as far as the list is concerned; AudioSession has their locks  *)
(* and timers.                                                             *)
ActivateAudioSession(w, p, m) ==
  [w EXCEPT !.mode[p] = m, !.members[p] = @ \cup {s \in Streams : Pid[s] = p /\ Listed(w, s)}]

RemovePlaceholderInterruptForSession(w, p, isSessionTimeout) ==
  LET held == {i \in DOMAIN w.list : Pid[w.list[i].id] = p /\ w.list[i].state = "PLACEHOLDER"}
  IN IF held = {} THEN w
     ELSE DeactivateAudioInterrupt(w, w.list[CHOOSE i \in held : \A j \in held : i <= j].id, isSessionTimeout)

EndSession(w, p, isSessionTimeout) ==
  RemovePlaceholderInterruptForSession([w EXCEPT !.mode[p] = "none", !.members[p] = {}], p, isSessionTimeout)

(* A client that dies, and a change of the user's account: every stream is *)
(* told to stop but the modem call and its ring tone.                      *)
ModemTypes == {"VOICE_CALL", "VOICE_RING"}

RemoveClient(w, s) == IF Listed(w, s) THEN DeactivateAudioInterrupt(w, s, FALSE) ELSE w

ClearAudioFocusInfoListOnAccountsChanged(w) ==
  FoldLeft(LAMBDA acc, e : IF w.type[e.id] \in ModemTypes THEN acc
                           ELSE Send(Without(acc, e.id), e.id, "STOP"), w, w.list)
=============================================================================
