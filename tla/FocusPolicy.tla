---------------------------- MODULE FocusPolicy -----------------------------
(***************************************************************************)
(* The focus list under the calls of streams of any types the policy knows *)
(* and in any order. What an application does with the events it gets is   *)
(* left open here: a stream may ask for the focus, or give it up, at any   *)
(* time. InterruptEvents adds the clients and the way of the events.       *)
(***************************************************************************)
EXTENDS FocusList

CONSTANTS
  Types,         \* the types the streams may be of
  Modes,         \* the concurrency modes a session may be activated with
  TypesWithModes \* sessions are used where all streams are of these types

ASSUME TypesAssumption == Types \subseteq FocusTypes

VARIABLES
  type, list, mode, members,  \* see FocusList
  told,                       \* what each stream's application knows of it
  modes                       \* the modes the processes use, Modes or none

vars == <<type, list, mode, members, told, modes>>
world == [type |-> type, list |-> list, mode |-> mode, members |-> members, sent |-> Nothing]

(* What an application makes of the events; a stream nobody may hear is    *)
(* "none". RESUME only asks it to start the stream again.                  *)
Learns(known, hint) ==
  CASE hint = "DUCK" /\ known # "none" -> "DUCK"
    [] hint = "UNDUCK" /\ known = "DUCK" -> "ACTIVE"
    [] hint = "PAUSE" -> "PAUSE"
    [] hint \in {"STOP", "RESUME"} -> "none"
    [] OTHER -> known

Becomes(w, know) ==
  /\ list' = w.list /\ mode' = w.mode /\ members' = w.members
  /\ told' = [s \in Streams |-> FoldLeft(Learns, know[s], w.sent[s])]
  /\ UNCHANGED <<type, modes>>

Init ==
  /\ type \in [Streams -> Types]
  /\ modes \in {{}} \cup IF \A s \in Streams : type[s] \in TypesWithModes THEN {Modes} ELSE {}
  /\ list = <<>>
  /\ mode = [p \in Pids |-> "none"] /\ members = [p \in Pids |-> {}]
  /\ told = [s \in Streams |-> "none"]

(* A call that is refused leaves its stream silent; one that is granted    *)
(* lets it play, as the events that came with the answer say.              *)
Activate(s) ==
  LET w == ActivateAudioInterrupt(world, s)
  IN Becomes(w, [told EXCEPT ![s] = IF Listed(w, s) THEN "ACTIVE" ELSE "none"])
Deactivate(s) == Becomes(DeactivateAudioInterrupt(world, s, FALSE), [told EXCEPT ![s] = "none"])
ClientDies(s) == Becomes(RemoveClient(world, s), [told EXCEPT ![s] = "none"])
AccountsChange == Becomes(ClearAudioFocusInfoListOnAccountsChanged(world), told)
SessionBegins(p) == \E m \in modes : Becomes(ActivateAudioSession(world, p, m), told)
SessionEnds(p) == mode[p] # "none" /\ Becomes(EndSession(world, p, FALSE), told)
SessionTimesOut(p) == mode[p] # "none" /\ members[p] = {} /\ Becomes(EndSession(world, p, TRUE), told)

Next ==
  \/ \E s \in Streams : Activate(s) \/ Deactivate(s) \/ ClientDies(s)
  \/ AccountsChange
  \/ \E p \in Pids : SessionBegins(p) \/ SessionEnds(p) \/ SessionTimesOut(p)

Spec == Init /\ [][Next]_vars

-----------------------------------------------------------------------------
Sounding(i) == list[i].state \in {"ACTIVE", "DUCK"}
Says(a, b) == Entry(world, a, b).hint

TypeOK ==
  /\ \A i \in DOMAIN list : list[i] \in [id : Streams, state : {"ACTIVE", "DUCK", "PAUSE", "PLACEHOLDER"}]
  /\ \A i, j \in DOMAIN list : list[i].id = list[j].id => i = j
  /\ mode \in [Pids -> Modes \cup {"none"}]
  /\ members \in [Pids -> SUBSET Streams]

(* One application shares the focus between two streams, or they are       *)
(* sources that may record together.                                       *)
MayOverlap(a, b) == IsSameAppInShareMode(a, b) \/ IsAudioSourceConcurrency(world, a, b)

(* Two streams the table does not let play together never do, unless one   *)
(* application shares the focus between them or they are sources that may  *)
(* record together: none that would pause or stop another, or be paused or *)
(* refused by it, sounds beside it, in whatever order they came, paused,   *)
(* left and came back.                                                     *)
NoClash ==
  modes = {} =>
    \A i, j \in DOMAIN list :
      i < j /\ Sounding(i) /\ Sounding(j) /\ ~MayOverlap(list[i].id, list[j].id) =>
        Says(list[i].id, list[j].id) \notin {"PAUSE", "STOP"}

(* The applications are not left behind: what a stream's owner makes of    *)
(* the answers and events it got is what the list says of the stream.      *)
ToldTheTruth ==
  \A s \in Streams :
    told[s] = IF Listed(world, s) /\ StateOf(world, s) # "PLACEHOLDER" THEN StateOf(world, s) ELSE "none"

(* The state an entry keeps when s has gone is the table's word on it and  *)
(* another of those that were there beside s; Without is the list as it    *)
(* was, in which one just told to resume is still found.                   *)
HasReason(s, kept) ==
  LET stay == Without(world, s).list
      At == CHOOSE i \in DOMAIN stay : stay[i].id = kept.id
  IN \E j \in DOMAIN stay :
       LET o == stay[j].id
           e == IF At < j THEN Entry(world, kept.id, o) ELSE Entry(world, o, kept.id)
       IN /\ o # kept.id /\ e.hint = kept.state
          /\ e.actionOn = IF At < j THEN "CURRENT" ELSE "INCOMING"

(* When a stream gives the focus up, every stream still kept paused or     *)
(* ducked is so for a reason: another of those that were there beside it - *)
(* one just told to resume counts - has the table's word for it.           *)
ReasonsRemain ==
  [][\A s \in Streams :
       modes = {} /\ Listed(world, s) /\ (\A i \in DOMAIN list' : list'[i].id # s) /\ Deactivate(s) =>
         \A i \in DOMAIN list' : list'[i].state \in {"PAUSE", "DUCK"} => HasReason(s, list'[i])]_vars

(* In w, Start would not leave s paused by the streams in the list.        *)
MayStart(w, s) ==
  LET started == ActivateAudioInterrupt(w, s) IN Listed(started, s) => StateOf(started, s) # "PAUSE"


(* A place is held for a process only as long as its session lasts.        *)
PlaceholderHasSession ==
  \A i \in DOMAIN list : list[i].state = "PLACEHOLDER" => mode[Pid[list[i].id]] # "none"

(* A session whose streams have all left counts as empty, so that its      *)
(* timer runs ("The audio session remains empty for one minute").          *)
EmptySessionCounts ==
  \A p \in Pids :
    mode[p] # "none" /\ (\A s \in Streams : Pid[s] = p => told[s] = "none") => members[p] = {}
=============================================================================
