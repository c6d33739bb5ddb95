---------------------------- MODULE AccessProofs ----------------------------
(***************************************************************************)
(* Proofs about the three ways into a gallery, for any number of requests,  *)
(* guests and links.                                                        *)
(***************************************************************************)
EXTENDS MCAccess, FiniteSetTheorems, TLAPS

-----------------------------------------------------------------------------
(* The door.                                                                *)

(* What a request read of the row is not newer than the row; if it is of    *)
(* the row's version then it is of the row's PIN.                           *)
NotAhead(row) == row.pv <= event.pv /\ (row.pv = event.pv => row.pin = event.pin)

(* While no PATCH wrote a version back that another had overtaken, versions *)
(* only grow, so everything in flight and every token was read from the row *)
(* as it is or as it was under an older version.                            *)
VersionsInOrder ==
    "pv" \notin undone =>
        /\ \A e \in Editor : edit[e].pc \in {"pin", "save"} => NotAhead(edit[e].row)
        /\ \A v \in Guest : /\ guest[v].pc = "issue" => NotAhead(guest[v].row)
                            /\ NotAhead(token[v])

DoorInv == DoorTypeOK /\ VersionsInOrder

(* The door starts in order.                                                *)
LEMMA DoorStarts == DoorInit => DoorInv
<1> SUFFICES ASSUME DoorInit
             PROVE  DoorInv
  OBVIOUS
<1>1. PICK withPin \in BOOLEAN : event = Created(withPin) /\ pins = event.pin
  BY DEF DoorInit
<1>2. event \in Row /\ pins \in 0..MaxPins
  BY <1>1, DoorAssumption DEF Created, Row, NoPin
<1>3. DoorTypeOK
  BY <1>2, DoorAssumption DEF DoorInit, DoorTypeOK, Quiet, NoToken, NoPin
<1>4. VersionsInOrder
  BY <1>2 DEF DoorInit, VersionsInOrder, NotAhead, Quiet, NoToken, NoPin, Row
<1> QED
  BY <1>3, <1>4 DEF DoorInv

(* What a request has in hand in each of its steps.                         *)
LEMMA EditShape ==
    ASSUME DoorTypeOK, NEW e \in Editor
    PROVE  \/ edit[e] = Quiet
           \/ edit[e] \in [pc : {"pin", "save"}, row : Row]
           \/ edit[e] \in [pc : {"stamp"}, row : [expiry : 0..MaxStamps]]
BY DEF DoorTypeOK

(* A request that goes back to rest, or reads, leaves the others as well    *)
(* typed as they were.                                                      *)
LEMMA EditTyped ==
    ASSUME DoorTypeOK, NEW e \in Editor, NEW n,
           \/ n = Quiet
           \/ n \in [pc : {"pin", "save"}, row : Row]
           \/ n \in [pc : {"stamp"}, row : [expiry : 0..MaxStamps]]
    PROVE  [edit EXCEPT ![e] = n] \in
              [Editor -> {Quiet} \cup [pc : {"pin", "save"}, row : Row]
                          \cup [pc : {"stamp"}, row : [expiry : 0..MaxStamps]]]
BY DEF DoorTypeOK

(* The steps of a PATCH that leave the row alone.                           *)
LEMMA QuietEditsKeepOrder ==
    ASSUME DoorInv, NEW e \in Editor,
           EditRead(e) \/ EditKeepPin(e) \/ EditRefuse(e) \/ EditDies(e)
    PROVE  DoorInv'
<1> USE DEF DoorInv
<1>1. CASE EditRead(e)
  <2>1. DoorTypeOK'
    BY <1>1, EditTyped DEF EditRead, DoorTypeOK
  <2>2. VersionsInOrder'
    BY <1>1 DEF EditRead, DoorTypeOK, VersionsInOrder, NotAhead, Row
  <2> QED
    BY <2>1, <2>2
<1>2. CASE EditKeepPin(e)
  <2>1. edit[e] \in [pc : {"pin", "save"}, row : Row]
    BY <1>2, EditShape DEF EditKeepPin, Quiet
  <2>2. edit' = [edit EXCEPT ![e] = [pc |-> "save", row |-> edit[e].row]]
    <3>1. [edit[e] EXCEPT !.pc = "save"] = [pc |-> "save", row |-> edit[e].row]
      BY <2>1
    <3> QED
      BY <1>2, <3>1 DEF EditKeepPin, DoorTypeOK
  <2>3. DoorTypeOK'
    BY <1>2, <2>1, <2>2, EditTyped DEF EditKeepPin, DoorTypeOK
  <2>4. VersionsInOrder'
    BY <1>2, <2>1, <2>2 DEF EditKeepPin, DoorTypeOK, VersionsInOrder, NotAhead
  <2> QED
    BY <2>3, <2>4
<1>3. CASE EditRefuse(e) \/ EditDies(e)
  <2>1. DoorTypeOK'
    BY <1>3, EditTyped DEF EditRefuse, EditDies, DoorTypeOK
  <2>2. VersionsInOrder'
    <3>1. \A f \in Editor : edit'[f] = edit[f] \/ edit'[f] = Quiet
      BY <1>3 DEF EditRefuse, EditDies, DoorTypeOK
    <3>2. UNCHANGED <<event, guest, token, undone>>
      BY <1>3 DEF EditRefuse, EditDies
    <3> QED
      BY <3>1, <3>2 DEF VersionsInOrder, NotAhead, Quiet
  <2> QED
    BY <2>1, <2>2
<1> QED
  BY <1>1, <1>2, <1>3

(* set_pin writes the PIN and one more than the version it read.            *)
LEMMA WithPinShape ==
    ASSUME NEW row \in Row, NEW pin \in 0..MaxPins
    PROVE  /\ WithPin(row, pin) \in Row
           /\ WithPin(row, pin).pv = row.pv + 1 /\ WithPin(row, pin).pin = pin
<1> DEFINE more == row.pv + 1
<1>1. more \in Nat
  BY DEF Row
<1>2. WithPin(row, pin) = [row EXCEPT !.pin = pin, !.pv = more]
  BY DEF WithPin
<1> HIDE DEF more
<1>3. WithPin(row, pin) \in Row /\ WithPin(row, pin).pv = more /\ WithPin(row, pin).pin = pin
  BY <1>1, <1>2 DEF Row
<1> QED
  BY <1>3 DEF more

(* A PATCH that sets or clears the PIN moves the version up, or is one that *)
(* had been overtaken.                                                      *)
LEMMA EditPinKeepsOrder ==
    ASSUME DoorInv, NEW e \in Editor, EditPin(e)
    PROVE  DoorInv'
<1> USE DEF DoorInv
<1>1. edit[e].row \in Row
  BY EditShape DEF EditPin, Quiet
<1>2. PICK pin \in {NoPin, pins + 1} :
         /\ pin <= MaxPins
         /\ pins' = IF pin = NoPin THEN pins ELSE pin
         /\ event' = [event EXCEPT !.pin = WithPin(edit[e].row, pin).pin,
                                   !.pv = WithPin(edit[e].row, pin).pv]
         /\ edit' = [edit EXCEPT ![e] = [pc |-> "save", row |-> WithPin(edit[e].row, pin)]]
  BY DEF EditPin
<1> DEFINE row == WithPin(edit[e].row, pin)
<1>3. /\ pin \in 0..MaxPins
      /\ row \in Row /\ row.pv = edit[e].row.pv + 1 /\ row.pin = pin
  <2>1. pin \in 0..MaxPins
    BY <1>2, DoorAssumption DEF NoPin, DoorTypeOK
  <2> QED
    BY <1>1, <2>1, WithPinShape
<1>4. event' \in Row /\ event'.pv = row.pv /\ event'.pin = row.pin
  BY <1>2, <1>3 DEF Row, DoorTypeOK
<1>5. DoorTypeOK'
  <2>1. undone' \subseteq {"pv", "expiry"}
    BY DEF EditPin, Overtaken, DoorTypeOK
  <2>2. pins' \in 0..MaxPins
    BY <1>2, <1>3 DEF DoorTypeOK
  <2>3. edit' \in [Editor -> {Quiet} \cup [pc : {"pin", "save"}, row : Row]
                          \cup [pc : {"stamp"}, row : [expiry : 0..MaxStamps]]]
    BY <1>2, <1>3, EditTyped
  <2> QED
    BY <1>4, <2>1, <2>2, <2>3 DEF EditPin, DoorTypeOK
<1>6. ASSUME "pv" \notin undone'
      PROVE  "pv" \notin undone /\ event'.pv = event.pv + 1
  <2>1. "pv" \notin undone /\ edit[e].row["pv"] = event["pv"]
    BY <1>6 DEF EditPin, Overtaken
  <2> QED
    BY <2>1, <1>3, <1>4
<1>7. VersionsInOrder'
  <2> SUFFICES ASSUME "pv" \notin undone'
               PROVE  /\ \A f \in Editor : edit'[f].pc \in {"pin", "save"} =>
                            NotAhead(edit[f].row)'
                      /\ \A v \in Guest : /\ guest'[v].pc = "issue" => NotAhead(guest[v].row)'
                                          /\ NotAhead(token[v])'
    BY DEF VersionsInOrder
  <2>1. event.pv \in Nat /\ event'.pv = event.pv + 1
    BY <1>6 DEF DoorTypeOK, Row
  <2>2. /\ \A f \in Editor : edit[f].pc \in {"pin", "save"} => edit[f].row.pv <= event.pv
        /\ \A v \in Guest : /\ guest[v].pc = "issue" => guest[v].row.pv <= event.pv
                            /\ token[v].pv <= event.pv
    BY <1>6 DEF VersionsInOrder, NotAhead
  <2>3. ASSUME NEW f \in Editor, edit'[f].pc \in {"pin", "save"}
        PROVE  NotAhead(edit[f].row)'
    <3>1. CASE f = e
      BY <3>1, <1>2, <1>3, <1>4 DEF NotAhead, DoorTypeOK, Row
    <3>2. CASE f # e
      <4>1. edit'[f] = edit[f]
        BY <3>2, <1>2 DEF DoorTypeOK
      <4>2. edit[f].row.pv \in Nat
        BY <4>1, <2>3, EditShape DEF Quiet, Row
      <4> QED
        BY <4>1, <4>2, <2>1, <2>2, <2>3 DEF NotAhead
    <3> QED
      BY <3>1, <3>2
  <2>4. ASSUME NEW v \in Guest
        PROVE  /\ guest'[v].pc = "issue" => NotAhead(guest[v].row)'
               /\ NotAhead(token[v])'
    <3>1. guest' = guest /\ token' = token
      BY DEF EditPin
    <3>2. token[v].pv \in Int /\ (guest[v].pc = "issue" => guest[v].row.pv \in Int)
      BY DEF DoorTypeOK, Quiet
    <3> QED
      BY <3>1, <3>2, <2>1, <2>2 DEF NotAhead
  <2> QED
    BY <2>3, <2>4
<1> QED
  BY <1>5, <1>7

(* The save of every column puts back the version that is there, or is that *)
(* of a PATCH that had been overtaken.                                      *)
LEMMA EditSaveKeepsOrder ==
    ASSUME DoorInv, NEW e \in Editor, EditSave(e)
    PROVE  DoorInv'
<1> USE DEF DoorInv
<1>1. edit[e].row \in Row /\ edit[e].pc = "save"
  BY EditShape DEF EditSave, Quiet
<1>2. PICK published \in BOOLEAN :
         /\ event' = [edit[e].row EXCEPT !.published = published]
         /\ edit' = [edit EXCEPT ![e] =
               IF Publishing(e, published)
               THEN [pc |-> "stamp",
                     row |-> [expiry |-> [edit[e].row EXCEPT !.published = published].expiry]]
               ELSE Quiet]
  BY DEF EditSave
<1>3. /\ event' \in Row
      /\ event'.pv = edit[e].row.pv /\ event'.pin = edit[e].row.pin
      /\ event'.expiry = edit[e].row.expiry
  BY <1>1, <1>2 DEF Row
<1>4. DoorTypeOK'
  <2>1. undone' \subseteq {"pv", "expiry"}
    BY DEF EditSave, Overtaken, DoorTypeOK
  <2>2. edit' \in [Editor -> {Quiet} \cup [pc : {"pin", "save"}, row : Row]
                          \cup [pc : {"stamp"}, row : [expiry : 0..MaxStamps]]]
    <3>1. CASE Publishing(e, published)
      BY <3>1, <1>2, <1>3, EditTyped DEF Row
    <3>2. CASE ~Publishing(e, published)
      BY <3>2, <1>2, EditTyped
    <3> QED
      BY <3>1, <3>2
  <2> QED
    BY <1>3, <2>1, <2>2 DEF EditSave, DoorTypeOK
<1>5. VersionsInOrder'
  <2> SUFFICES ASSUME "pv" \notin undone'
               PROVE  /\ \A f \in Editor : edit'[f].pc \in {"pin", "save"} =>
                            NotAhead(edit[f].row)'
                      /\ \A v \in Guest : /\ guest'[v].pc = "issue" => NotAhead(guest[v].row)'
                                          /\ NotAhead(token[v])'
    BY DEF VersionsInOrder
  <2>1. "pv" \notin undone /\ edit[e].row["pv"] = event["pv"]
    BY DEF EditSave, Overtaken
  <2>2. event'.pv = event.pv /\ event'.pin = event.pin
    BY <2>1, <1>1, <1>3 DEF VersionsInOrder, NotAhead
  <2>3. ASSUME NEW f \in Editor, edit'[f].pc \in {"pin", "save"}
        PROVE  edit'[f] = edit[f]
    BY <2>3, <1>2 DEF DoorTypeOK, Quiet
  <2>4. guest' = guest /\ token' = token
    BY DEF EditSave
  <2> QED
    BY <2>1, <2>2, <2>3, <2>4 DEF VersionsInOrder, NotAhead
<1> QED
  BY <1>4, <1>5

(* The stamp writes one column.                                             *)
LEMMA StampKeepsOrder ==
    ASSUME DoorInv, NEW e \in Editor, Stamp(e)
    PROVE  DoorInv'
<1> USE DEF DoorInv
<1>1. /\ event' \in Row /\ event'.pv = event.pv /\ event'.pin = event.pin
      /\ stamps' \in [made : 0..MaxStamps, past : 0..MaxStamps]
  <2>1. CASE UNCHANGED <<event, stamps, undone>>
    BY <2>1 DEF DoorTypeOK
  <2>2. CASE /\ stamps.made < MaxStamps
             /\ stamps' = [stamps EXCEPT !.made = @ + 1]
             /\ event' = [event EXCEPT !.expiry = stamps'.made]
    <3>1. /\ stamps' \in [made : 0..MaxStamps, past : 0..MaxStamps]
          /\ stamps'.made \in 0..MaxStamps
      BY <2>2, DoorAssumption DEF DoorTypeOK
    <3> QED
      BY <2>2, <3>1 DEF DoorTypeOK, Row
  <2> QED
    BY <2>1, <2>2 DEF Stamp
<1>2. undone' \subseteq {"pv", "expiry"} /\ ("pv" \in undone' <=> "pv" \in undone)
  BY DEF Stamp, Overtaken, DoorTypeOK
<1>3. DoorTypeOK'
  BY <1>1, <1>2, EditTyped DEF Stamp, DoorTypeOK
<1>4. VersionsInOrder'
  <2>1. \A f \in Editor : edit'[f] = edit[f] \/ edit'[f] = Quiet
    BY DEF Stamp, DoorTypeOK
  <2>2. guest' = guest /\ token' = token
    BY DEF Stamp
  <2> QED
    BY <1>1, <1>2, <2>1, <2>2 DEF VersionsInOrder, NotAhead, Quiet
<1> QED
  BY <1>3, <1>4

(* A guest's token is of the row that was read, and that row is not newer.  *)
LEMMA GuestsKeepOrder ==
    ASSUME DoorInv, NEW v \in Guest, GuestEnters(v) \/ GuestIssue(v) \/ GuestLeaves(v)
    PROVE  DoorInv'
<1> USE DEF DoorInv
<1>1. CASE GuestEnters(v)
  <2>1. DoorTypeOK'
    BY <1>1 DEF GuestEnters, DoorTypeOK, Row
  <2>2. VersionsInOrder'
    BY <1>1 DEF GuestEnters, DoorTypeOK, VersionsInOrder, NotAhead, Row
  <2> QED
    BY <2>1, <2>2
<1>2. CASE GuestIssue(v)
  <2>1. guest[v] \in [pc : {"issue"}, row : [pv : Nat, pin : 0..MaxPins]]
    BY <1>2 DEF GuestIssue, DoorTypeOK, Quiet
  <2>2. DoorTypeOK'
    BY <1>2, <2>1 DEF GuestIssue, DoorTypeOK
  <2>3. VersionsInOrder'
    BY <1>2, <2>1 DEF GuestIssue, DoorTypeOK, VersionsInOrder, NotAhead, Quiet
  <2> QED
    BY <2>2, <2>3
<1>3. CASE GuestLeaves(v)
  <2>1. DoorTypeOK'
    BY <1>3, DoorAssumption DEF GuestLeaves, DoorTypeOK, NoToken, NoPin
  <2>2. VersionsInOrder'
    BY <1>3 DEF GuestLeaves, DoorTypeOK, VersionsInOrder, NotAhead, NoToken, Row
  <2> QED
    BY <2>1, <2>2
<1> QED
  BY <1>1, <1>2, <1>3

(* Versions stay in order, whatever the requests and the guests do.         *)
LEMMA DoorStays == DoorInv /\ [DoorNext]_doorVars => DoorInv'
<1> SUFFICES ASSUME DoorInv, [DoorNext]_doorVars
             PROVE  DoorInv'
  OBVIOUS
<1>1. CASE UNCHANGED doorVars
  BY <1>1 DEF doorVars, DoorInv, DoorTypeOK, VersionsInOrder, NotAhead
<1>2. CASE RotateCode
  <2>1. DoorTypeOK'
    BY <1>2, DoorAssumption DEF RotateCode, DoorInv, DoorTypeOK, Row
  <2>2. event'.pv = event.pv /\ event'.pin = event.pin
    BY <1>2 DEF RotateCode, DoorInv, DoorTypeOK, Row
  <2> QED
    BY <1>2, <2>1, <2>2 DEF RotateCode, DoorInv, VersionsInOrder, NotAhead
<1>3. CASE DatePasses
  BY <1>3 DEF DatePasses, DoorInv, DoorTypeOK, VersionsInOrder, NotAhead
<1> QED
  BY <1>1, <1>2, <1>3, QuietEditsKeepOrder, EditPinKeepsOrder, EditSaveKeepsOrder,
     StampKeepsOrder, GuestsKeepOrder DEF DoorNext

(* Every reachable state of the door is in order.                           *)
THEOREM DoorInvariant == DoorSpec => []DoorInv
<1>1. DoorInit => DoorInv
  BY DoorStarts
<1>2. DoorInv /\ [DoorNext]_doorVars => DoorInv'
  BY DoorStays
<1> QED
  BY <1>1, <1>2, PTL DEF DoorSpec

(* Changing or clearing the PIN shuts out every guest who knows only the    *)
(* old one, unless a PATCH wrote a version back from a row that another had *)
(* changed since.                                                           *)
THEOREM RotationLocksGuestsOut == DoorSpec => []RotationRevokes
<1>1. DoorInv => RotationRevokes
  BY DEF DoorInv, VersionsInOrder, NotAhead, RotationRevokes, CanView, Accepted
<1> QED
  BY <1>1, DoorInvariant, PTL

(* No step takes a stamped expiry away or moves it, but the save of a PATCH *)
(* that had read the row before it was stamped.                             *)
THEOREM ExpiryIsKept == DoorSpec => ExpiryKept
<1>1. ASSUME DoorInv, [DoorNext]_doorVars
      PROVE  [event.expiry # 0 => event'.expiry = event.expiry \/ "expiry" \in undone']_doorVars
  <2> SUFFICES ASSUME DoorNext, event.expiry # 0
               PROVE  event'.expiry = event.expiry \/ "expiry" \in undone'
    BY <1>1
  <2>1. CASE UNCHANGED event
    BY <2>1
  <2>2. CASE \E e \in Editor : EditPin(e)
    BY <2>2, <1>1 DEF EditPin, DoorInv, DoorTypeOK, Row
  <2>3. ASSUME NEW e \in Editor, EditSave(e)
        PROVE  event'.expiry = event.expiry \/ "expiry" \in undone'
    <3>1. edit[e].row \in Row
      BY <1>1, <2>3, EditShape DEF EditSave, Quiet, DoorInv
    <3>2. event'.expiry = edit[e].row.expiry
      BY <2>3, <3>1 DEF EditSave, Row
    <3>3. edit[e].row["expiry"] # event["expiry"] => "expiry" \in undone'
      BY <2>3 DEF EditSave, Overtaken
    <3> QED
      BY <3>2, <3>3
  <2>4. ASSUME NEW e \in Editor, Stamp(e)
        PROVE  event'.expiry = event.expiry \/ "expiry" \in undone'
    <3>1. CASE UNCHANGED <<event, stamps, undone>>
      BY <3>1
    <3>2. CASE NeverStamped(edit[e].row) /\ Overtaken(e, {"expiry"})
      <4>1. edit[e].row["expiry"] # event["expiry"]
        BY <3>2 DEF NeverStamped
      <4> QED
        BY <4>1, <3>2 DEF Overtaken
    <3> QED
      BY <2>4, <3>1, <3>2 DEF Stamp
  <2>5. CASE RotateCode
    BY <2>5, <1>1 DEF RotateCode, DoorInv, DoorTypeOK, Row
  <2>6. CASE \/ \E e \in Editor : EditRead(e) \/ EditKeepPin(e) \/ EditRefuse(e) \/ EditDies(e)
             \/ \E v \in Guest : GuestEnters(v) \/ GuestIssue(v) \/ GuestLeaves(v)
             \/ DatePasses
    BY <2>6 DEF EditRead, EditKeepPin, EditRefuse, EditDies, GuestEnters, GuestIssue,
                GuestLeaves, DatePasses
  <2> QED
    BY <2>2, <2>3, <2>4, <2>5, <2>6 DEF DoorNext
<1> QED
  BY <1>1, DoorInvariant, PTL DEF DoorSpec, ExpiryKept
-----------------------------------------------------------------------------
(* Magic links.                                                             *)

CreatedLinks == {l \in Link : link[l] # "none"}

(* Links are numbered as they are created, so a number is given out once.   *)
NumberedInOrder == CreatedLinks = 1..Cardinality(CreatedLinks)

(* A link that is not used up has opened nothing, and one that is has       *)
(* opened at most one session.                                              *)
UsedUpAtMostOnce ==
    \A l \in Link : opened[l] <= 1 /\ (link[l] # "gone" => opened[l] = 0)

(* The rows that redeemers have locked are there, and each has one.         *)
RowsLockedOnce ==
    /\ \A c \in Redeemer : redeem[c] # NoLink => link[redeem[c]] \in {"live", "lapsed"}
    /\ \A c, d \in Redeemer : redeem[c] = redeem[d] /\ redeem[c] # NoLink => c = d

(* A request that has counted the links will create one more at most.       *)
RoomForAskers ==
    Cardinality(LiveLinks) + Cardinality(ask) <= MaxLive + Cardinality(Asker) - 1

LinkInv ==
    LinkTypeOK /\ NumberedInOrder /\ UsedUpAtMostOnce /\ RowsLockedOnce /\ RoomForAskers


(* The links start out in order: there are none.                            *)
LEMMA LinksStart == LinkInit => LinkInv
<1> SUFFICES ASSUME LinkInit
             PROVE  LinkInv
  OBVIOUS
<1>1. LiveLinks = {} /\ CreatedLinks = {} /\ ask = {}
  BY DEF LinkInit, LiveLinks, CreatedLinks
<1>2. Cardinality(Asker) \in Nat /\ Cardinality(Asker) # 0
  BY LinkAssumption, FS_CardinalityType, FS_EmptySet
<1>3. RoomForAskers
  BY <1>1, <1>2, LinkAssumption, FS_EmptySet DEF RoomForAskers
<1>4. NumberedInOrder
  BY <1>1, FS_EmptySet DEF NumberedInOrder
<1>5. LinkTypeOK
  BY DEF LinkInit, LinkTypeOK
<1>6. UsedUpAtMostOnce /\ RowsLockedOnce
  BY DEF LinkInit, UsedUpAtMostOnce, RowsLockedOnce
<1> QED
  BY <1>3, <1>4, <1>5, <1>6 DEF LinkInv

(* The sets counted are finite.                                             *)
LEMMA LinksFinite ==
    ASSUME LinkTypeOK
    PROVE  /\ IsFiniteSet(LiveLinks) /\ Cardinality(LiveLinks) \in Nat
           /\ IsFiniteSet(CreatedLinks) /\ Cardinality(CreatedLinks) \in Nat
           /\ IsFiniteSet(ask) /\ Cardinality(ask) \in Nat
           /\ Cardinality(ask) <= Cardinality(Asker)
           /\ Cardinality(Asker) \in Nat /\ MaxLive \in Nat
<1>1. LiveLinks \subseteq Link /\ CreatedLinks \subseteq Link /\ ask \subseteq Asker
  BY DEF LiveLinks, CreatedLinks, LinkTypeOK
<1> QED
  BY <1>1, LinkAssumption, FS_Subset, FS_CardinalityType

(* Every step of a link is well typed.                                      *)
LEMMA LinksTyped == LinkTypeOK /\ [LinkNext]_linkVars => LinkTypeOK'
<1> SUFFICES ASSUME LinkTypeOK, [LinkNext]_linkVars
             PROVE  LinkTypeOK'
  OBVIOUS
<1> USE DEF LinkTypeOK
<1>1. CASE UNCHANGED linkVars
  BY <1>1 DEF linkVars
<1>2. CASE AllowClient \/ DisallowClient \/ OpenOrClose
  BY <1>2 DEF AllowClient, DisallowClient, OpenOrClose
<1>3. CASE PurgeAccess \/ PurgeLinks
  BY <1>3 DEF PurgeAccess, PurgeLinks, Swept
<1>4. ASSUME NEW q \in Asker, AskForLink(q) \/ CreateLink(q)
      PROVE  LinkTypeOK'
  <2>1. CASE AskForLink(q)
    BY <2>1 DEF AskForLink, Swept
  <2>2. CASE CreateLink(q)
    BY <2>2 DEF CreateLink
  <2> QED
    BY <1>4, <2>1, <2>2
<1>5. ASSUME NEW c \in Redeemer,
             (\E l \in Link : Redeem(c, l)) \/ Admit(c) \/ TurnAway(c) \/ RedeemDies(c)
      PROVE  LinkTypeOK'
  <2>1. CASE \E l \in Link : Redeem(c, l)
    BY <2>1 DEF Redeem
  <2>2. CASE Admit(c)
    BY <2>2 DEF Admit
  <2>3. CASE TurnAway(c)
    BY <2>3 DEF TurnAway
  <2>4. CASE RedeemDies(c)
    BY <2>4 DEF RedeemDies
  <2> QED
    BY <1>5, <2>1, <2>2, <2>3, <2>4
<1>6. ASSUME NEW l \in Link,
             \/ MailLink(l) \/ LinkLapses(l) \/ PickFavorite(l)
             \/ UnpickFavorite(l) \/ SessionAges(l)
      PROVE  LinkTypeOK'
  <2>1. CASE MailLink(l)
    BY <2>1 DEF MailLink
  <2>2. CASE LinkLapses(l)
    BY <2>2 DEF LinkLapses
  <2>3. CASE PickFavorite(l) \/ UnpickFavorite(l)
    BY <2>3 DEF PickFavorite, UnpickFavorite
  <2>4. CASE SessionAges(l)
    BY <2>4 DEF SessionAges
  <2> QED
    BY <1>6, <2>1, <2>2, <2>3, <2>4
<1> QED
  BY <1>1, <1>2, <1>3, <1>4, <1>5, <1>6 DEF LinkNext

(* What a step does to the links: one is created under the next number, one *)
(* that a redeemer has locked is used up, one lapses, those past their time *)
(* and not locked go, or nothing.                                           *)
NextNumber == Cardinality(CreatedLinks) + 1
LinksStep ==
    \/ /\ NextNumber \in Link
       /\ link' = [link EXCEPT ![NextNumber] = "live"]
       /\ \E q \in ask : ask' = ask \ {q}
       /\ UNCHANGED <<redeem, opened>>
    \/ \E c \in Redeemer :
          /\ redeem[c] # NoLink
          /\ link' = [link EXCEPT ![redeem[c]] = "gone"]
          /\ redeem' = [redeem EXCEPT ![c] = NoLink]
          /\ \/ UNCHANGED opened
             \/ opened' = [opened EXCEPT ![redeem[c]] = @ + 1]
          /\ UNCHANGED ask
    \/ /\ \E l \in Link : link[l] = "live" /\ link' = [link EXCEPT ![l] = "lapsed"]
       /\ UNCHANGED <<ask, redeem, opened>>
    \/ /\ link' = Swept
       /\ \/ UNCHANGED ask
          \/ MayAsk /\ \E q \in Asker : ask' = ask \cup {q}
       /\ UNCHANGED <<redeem, opened>>
    \/ /\ \E c \in Redeemer :
             \/ redeem' = [redeem EXCEPT ![c] = NoLink]
             \/ \E l \in Link : /\ link[l] \in {"live", "lapsed"} /\ ~Locked(l)
                                /\ redeem' = [redeem EXCEPT ![c] = l]
       /\ UNCHANGED <<link, ask, opened>>
    \/ UNCHANGED <<link, ask, redeem, opened>>

(* Every step of the specification is one of these.                         *)
LEMMA LinksStepCovers == [LinkNext]_linkVars => LinksStep
<1> SUFFICES ASSUME [LinkNext]_linkVars
             PROVE  LinksStep
  OBVIOUS
<1>1. CASE \/ UNCHANGED linkVars \/ AllowClient \/ DisallowClient \/ OpenOrClose
           \/ \E l \in Link : \/ MailLink(l) \/ PickFavorite(l)
                              \/ UnpickFavorite(l) \/ SessionAges(l)
  BY <1>1 DEF linkVars, AllowClient, DisallowClient, OpenOrClose, MailLink, PickFavorite,
              UnpickFavorite, SessionAges, LinksStep
<1>2. CASE PurgeAccess \/ PurgeLinks
  BY <1>2 DEF PurgeAccess, PurgeLinks, LinksStep
<1>3. CASE \E q \in Asker : AskForLink(q)
  BY <1>3 DEF AskForLink, LinksStep
<1>4. CASE \E q \in Asker : CreateLink(q)
  BY <1>4 DEF CreateLink, LinksStep, NextNumber, CreatedLinks
<1>5. CASE \E c \in Redeemer : Admit(c)
  BY <1>5 DEF Admit, LinksStep
<1>6. CASE \E c \in Redeemer : TurnAway(c)
  BY <1>6 DEF TurnAway, LinksStep
<1>7. CASE \E c \in Redeemer : RedeemDies(c) \/ \E l \in Link : Redeem(c, l)
  BY <1>7 DEF RedeemDies, Redeem, LinksStep
<1>8. CASE \E l \in Link : LinkLapses(l)
  BY <1>8 DEF LinkLapses, LinksStep
<1> QED
  BY <1>1, <1>2, <1>3, <1>4, <1>5, <1>6, <1>7, <1>8 DEF LinkNext

(* The number of the next link is not taken.                                *)
LEMMA NextNumberFree ==
    ASSUME LinkTypeOK, NumberedInOrder, NextNumber \in Link
    PROVE  link[NextNumber] = "none"
<1>1. NextNumber \notin 1..Cardinality(CreatedLinks)
  BY LinksFinite DEF NextNumber
<1> QED
  BY <1>1 DEF NumberedInOrder, CreatedLinks

(* Numbers stay in order.                                                   *)
LEMMA NumbersStay ==
    ASSUME LinkInv, LinksStep
    PROVE  NumberedInOrder'
<1> USE DEF LinkInv
<1>1. CASE NextNumber \in Link /\ link' = [link EXCEPT ![NextNumber] = "live"]
  <2>1. CreatedLinks' = CreatedLinks \cup {NextNumber} /\ NextNumber \notin CreatedLinks
    BY <1>1, NextNumberFree DEF CreatedLinks, LinkTypeOK
  <2>2. Cardinality(CreatedLinks') = NextNumber
    BY <2>1, LinksFinite, FS_AddElement DEF NextNumber
  <2>3. 1..NextNumber = (1..Cardinality(CreatedLinks)) \cup {NextNumber}
    BY LinksFinite DEF NextNumber
  <2> QED
    BY <2>1, <2>2, <2>3 DEF NumberedInOrder
<1>2. CASE CreatedLinks' = CreatedLinks
  BY <1>2 DEF NumberedInOrder
<1>3. CASE \E c \in Redeemer :
              redeem[c] # NoLink /\ link' = [link EXCEPT ![redeem[c]] = "gone"]
  <2>1. PICK c \in Redeemer :
            redeem[c] # NoLink /\ link' = [link EXCEPT ![redeem[c]] = "gone"]
    BY <1>3
  <2>2. link[redeem[c]] # "none"
    BY <2>1 DEF RowsLockedOnce
  <2> QED
    BY <1>2, <2>1, <2>2 DEF CreatedLinks, LinkTypeOK
<1>4. CASE \E l \in Link : link[l] = "live" /\ link' = [link EXCEPT ![l] = "lapsed"]
  BY <1>2, <1>4 DEF CreatedLinks, LinkTypeOK
<1>5. CASE link' = Swept
  BY <1>2, <1>5 DEF CreatedLinks, LinkTypeOK, Swept
<1>6. CASE UNCHANGED link
  BY <1>2, <1>6 DEF CreatedLinks
<1> QED
  BY <1>1, <1>3, <1>4, <1>5, <1>6 DEF LinksStep

(* Whoever holds a row goes on holding it alone, and it stays there.        *)
LEMMA LocksStay ==
    ASSUME LinkInv, LinksStep
    PROVE  RowsLockedOnce'
<1> USE DEF LinkInv
<1>1. ASSUME NextNumber \in Link, link' = [link EXCEPT ![NextNumber] = "live"],
             UNCHANGED redeem
      PROVE  RowsLockedOnce'
  BY <1>1 DEF RowsLockedOnce, LinkTypeOK, NoLink
<1>2. ASSUME NEW c \in Redeemer, redeem[c] # NoLink,
             link' = [link EXCEPT ![redeem[c]] = "gone"],
             redeem' = [redeem EXCEPT ![c] = NoLink]
      PROVE  RowsLockedOnce'
  <2>1. \A d \in Redeemer : redeem'[d] # NoLink =>
           redeem'[d] = redeem[d] /\ redeem[d] # redeem[c] /\ link'[redeem[d]] = link[redeem[d]]
    BY <1>2 DEF RowsLockedOnce, LinkTypeOK
  <2> QED
    BY <2>1 DEF RowsLockedOnce
<1>3. ASSUME NEW l \in Link, link[l] = "live", link' = [link EXCEPT ![l] = "lapsed"],
             UNCHANGED redeem
      PROVE  RowsLockedOnce'
  BY <1>3 DEF RowsLockedOnce, LinkTypeOK
<1>4. ASSUME link' = Swept, UNCHANGED redeem
      PROVE  RowsLockedOnce'
  <2>1. \A c \in Redeemer : redeem[c] # NoLink =>
           redeem[c] \in Link /\ Locked(redeem[c])
    BY DEF Locked, LinkTypeOK
  <2>2. \A c \in Redeemer : redeem[c] # NoLink => link'[redeem[c]] = link[redeem[c]]
    BY <1>4, <2>1 DEF Swept
  <2> QED
    BY <1>4, <2>2 DEF RowsLockedOnce
<1>5. ASSUME NEW c \in Redeemer, UNCHANGED link,
             \/ redeem' = [redeem EXCEPT ![c] = NoLink]
             \/ \E l \in Link : /\ link[l] \in {"live", "lapsed"} /\ ~Locked(l)
                                /\ redeem' = [redeem EXCEPT ![c] = l]
      PROVE  RowsLockedOnce'
  <2>1. CASE redeem' = [redeem EXCEPT ![c] = NoLink]
    BY <1>5, <2>1 DEF RowsLockedOnce, LinkTypeOK
  <2>2. ASSUME NEW l \in Link, link[l] \in {"live", "lapsed"}, ~Locked(l),
               redeem' = [redeem EXCEPT ![c] = l]
        PROVE  RowsLockedOnce'
    BY <1>5, <2>2 DEF RowsLockedOnce, LinkTypeOK, Locked
  <2> QED
    BY <1>5, <2>1, <2>2
<1>6. CASE UNCHANGED <<link, redeem>>
  BY <1>6 DEF RowsLockedOnce
<1> QED
  BY <1>1, <1>2, <1>3, <1>4, <1>5, <1>6 DEF LinksStep

(* A link is used up when it opens its session.                             *)
LEMMA UsedUpStays ==
    ASSUME LinkInv, LinksStep
    PROVE  UsedUpAtMostOnce'
<1> USE DEF LinkInv
<1>1. ASSUME NextNumber \in Link, link' = [link EXCEPT ![NextNumber] = "live"],
             UNCHANGED opened
      PROVE  UsedUpAtMostOnce'
  BY <1>1, NextNumberFree DEF UsedUpAtMostOnce, LinkTypeOK
<1>2. ASSUME NEW c \in Redeemer, redeem[c] # NoLink,
             link' = [link EXCEPT ![redeem[c]] = "gone"],
             UNCHANGED opened \/ opened' = [opened EXCEPT ![redeem[c]] = @ + 1]
      PROVE  UsedUpAtMostOnce'
  <2>1. redeem[c] \in Link /\ opened[redeem[c]] = 0
    BY <1>2 DEF RowsLockedOnce, UsedUpAtMostOnce, LinkTypeOK
  <2> QED
    BY <1>2, <2>1 DEF UsedUpAtMostOnce, LinkTypeOK
<1>3. ASSUME NEW l \in Link, link[l] = "live", link' = [link EXCEPT ![l] = "lapsed"],
             UNCHANGED opened
      PROVE  UsedUpAtMostOnce'
  BY <1>3 DEF UsedUpAtMostOnce, LinkTypeOK
<1>4. CASE link' = Swept /\ UNCHANGED opened
  BY <1>4 DEF UsedUpAtMostOnce, LinkTypeOK, Swept
<1>5. CASE UNCHANGED <<link, opened>>
  BY <1>5 DEF UsedUpAtMostOnce
<1> QED
  BY <1>1, <1>2, <1>3, <1>4, <1>5 DEF LinksStep

(* Live links and the requests that may add one stay within the room.       *)
LEMMA RoomStays ==
    ASSUME LinkInv, LinkTypeOK', LinksStep
    PROVE  RoomForAskers'
<1> USE DEF LinkInv
<1>1. ASSUME LiveLinks' \subseteq LiveLinks, UNCHANGED ask
      PROVE  RoomForAskers'
  <2>1. Cardinality(LiveLinks') <= Cardinality(LiveLinks) /\ Cardinality(LiveLinks') \in Nat
    BY <1>1, LinksFinite, FS_Subset, FS_CardinalityType
  <2> QED
    BY <1>1, <2>1, LinksFinite DEF RoomForAskers
<1>2. ASSUME NEW q \in ask, ask' = ask \ {q}, NextNumber \in Link,
             link' = [link EXCEPT ![NextNumber] = "live"]
      PROVE  RoomForAskers'
  <2>1. LiveLinks' = LiveLinks \cup {NextNumber} /\ NextNumber \notin LiveLinks
    BY <1>2, NextNumberFree DEF LiveLinks, LinkTypeOK
  <2>2. Cardinality(LiveLinks') = Cardinality(LiveLinks) + 1
    BY <2>1, LinksFinite, FS_AddElement
  <2>3. Cardinality(ask') = Cardinality(ask) - 1
    BY <1>2, LinksFinite, FS_RemoveElement
  <2> QED
    BY <2>2, <2>3, LinksFinite DEF RoomForAskers
<1>3. ASSUME link' = Swept, MayAsk, NEW q \in Asker, ask' = ask \cup {q}
      PROVE  RoomForAskers'
  <2>1. LiveLinks' = LiveLinks
    BY <1>3 DEF LiveLinks, Swept, LinkTypeOK
  <2>2. Cardinality(ask') \in Nat /\ Cardinality(ask') <= Cardinality(Asker)
    <3>1. ask' \subseteq Asker
      BY <1>3 DEF LinkTypeOK
    <3> QED
      BY <3>1, LinkAssumption, FS_Subset, FS_CardinalityType
  <2> QED
    BY <1>3, <2>1, <2>2, LinksFinite DEF RoomForAskers, MayAsk
<1>4. ASSUME NEW l, link' = [link EXCEPT ![l] = "gone"] \/ link' = [link EXCEPT ![l] = "lapsed"]
      PROVE  LiveLinks' \subseteq LiveLinks
  BY <1>4 DEF LiveLinks, LinkTypeOK
<1>5. ASSUME link' = Swept \/ UNCHANGED link
      PROVE  LiveLinks' \subseteq LiveLinks
  BY <1>5 DEF LiveLinks, LinkTypeOK, Swept
<1> QED
  BY <1>1, <1>2, <1>3, <1>4, <1>5 DEF LinksStep

(* Every reachable state of the links is in order.                          *)
THEOREM LinkInvariant == LinkSpec => []LinkInv
<1>1. LinkInit => LinkInv
  BY LinksStart
<1>2. LinkInv /\ [LinkNext]_linkVars => LinkInv'
  BY LinksTyped, LinksStepCovers, NumbersStay, LocksStay, UsedUpStays, RoomStays DEF LinkInv
<1> QED
  BY <1>1, <1>2, PTL DEF LinkSpec

(* However many requests present its token, a link opens one session.       *)
THEOREM LinksOpenOnce == LinkSpec => []ConsumeOnce
<1>1. LinkInv => ConsumeOnce
  BY DEF LinkInv, UsedUpAtMostOnce, ConsumeOnce
<1> QED
  BY <1>1, LinkInvariant, PTL

(* The limit on live links is overrun by fewer than ask at the same time.   *)
THEOREM LiveLinksBounded == LinkSpec => []LinkBound
<1>1. LinkInv => LinkBound
  BY LinksFinite DEF LinkInv, RoomForAskers, LinkBound
<1> QED
  BY <1>1, LinkInvariant, PTL
-----------------------------------------------------------------------------
(* The PIN gate.                                                            *)

(* The attempts at one of their steps, and how many these are.              *)
Standing(a, pc) == {v \in Visitor : a[v] = pc}
In(pc) == {v \in Visitor : At(v, pc)}
Many(pc) == Cardinality(In(pc))

(* An attempt past the check adds one to the counter at most, unless it is  *)
(* late with a first count.                                                 *)
CounterLimited ==
    failures + Many("count") + Many("hash")
        <= MaxFailures - 1 + Cardinality(Visitor) - Many("first")

(* While the counter is away nothing has been counted.                      *)
UncountedKnown == failures = 0 => wrong <= Many("count") + Many("first") + outages

(* Wrong PINs that no counter shows were hidden when a late first count set *)
(* the counter back; k late counts still to come can hide M - 2 + n - k and *)
(* so on down, which together is what is added here, twice.                 *)
HiddenLimited ==
    LET n == Cardinality(Visitor)
        k == Many("first")
    IN  failures > 0 =>
            2 * (wrong - failures - Many("count") - outages)
              + 2 * k * (MaxFailures - 2 + n) - k * (k + 1)
            <= 2 * (n - 1) * (MaxFailures - 1 + n) - n * (n - 1)

GateInv == GateTypeOK /\ CounterLimited /\ UncountedKnown /\ HiddenLimited

(* What k late counts can hide grows with k, up to n - 1 of them.           *)
LEMMA HiddenGrows ==
    ASSUME NEW n \in Nat, NEW k \in Nat, NEW M \in Nat \ {0}, NEW d \in Int,
           k + 1 <= n, d <= k
    PROVE  2 * d + 2 * k * (M - 2 + n) - k * (k + 1)
              <= 2 * (n - 1) * (M - 1 + n) - n * (n - 1)
<1>1. (n - 1 - k) * (2 * M - 2 + n - k) >= 0
  <2> DEFINE a == n - 1 - k
             b == 2 * M - 2 + n - k
  <2>1. a \in Nat /\ b \in Nat
    OBVIOUS
  <2>2. \A x, y \in Nat : x * y >= 0
    OBVIOUS
  <2> QED
    BY <2>1, <2>2
<1>2. 2 * k + 2 * k * (M - 2 + n) - k * (k + 1) + (n - 1 - k) * (2 * M - 2 + n - k)
        = 2 * (n - 1) * (M - 1 + n) - n * (n - 1)
  OBVIOUS
<1> QED
  BY <1>1, <1>2

(* One late count hides no more than the term for it gives away.            *)
LEMMA HiddenStep ==
    ASSUME NEW n \in Nat, NEW k \in Nat, NEW M \in Nat, NEW f \in Int, NEW d \in Int,
           NEW bound \in Int, f - 1 <= M - 2 + n - k,
           2 * d + 2 * k * (M - 2 + n) - k * (k + 1) <= bound
    PROVE  2 * (d + f - 1) + 2 * (k - 1) * (M - 2 + n) - (k - 1) * k <= bound
<1>1. 2 * (k - 1) * (M - 2 + n) = 2 * k * (M - 2 + n) - 2 * (M - 2 + n)
  OBVIOUS
<1>2. (k - 1) * k = k * (k + 1) - 2 * k
  OBVIOUS
<1> DEFINE p == 2 * k * (M - 2 + n)
           q == k * (k + 1)
<1>3. p \in Int /\ q \in Int
  OBVIOUS
<1> HIDE DEF p, q
<1>4. 2 * d + p - q <= bound
  BY DEF p, q
<1>5. 2 * (d + f - 1) + (p - 2 * (M - 2 + n)) - (q - 2 * k) <= bound
  BY <1>3, <1>4
<1> QED
  BY <1>1, <1>2, <1>5 DEF p, q

(* The late counts that are still to come leave room for the bound.         *)
LEMMA HiddenBound ==
    ASSUME NEW n \in Nat, NEW k \in Nat, NEW M \in Nat \ {0}, NEW d \in Int, NEW w \in Int,
           k <= n, w <= d + M - 1 + n - k,
           2 * d + 2 * k * (M - 2 + n) - k * (k + 1) <= 2 * (n - 1) * (M - 1 + n) - n * (n - 1)
    PROVE  2 * w <= 2 * n * M + n * (n - 1)
<1>1. k * (2 * M - 3 + 2 * n - k) >= 0
  <2>1. CASE k = 0
    BY <2>1
  <2>2. CASE k # 0
    <3>1. k \in Nat /\ 2 * M - 3 + 2 * n - k \in Nat
      BY <2>2
    <3>2. \A x, y \in Nat : x * y >= 0
      OBVIOUS
    <3> QED
      BY <3>1, <3>2
  <2> QED
    BY <2>1, <2>2
<1>2. 2 * (n - 1) * (M - 1 + n) - n * (n - 1) - 2 * k * (M - 2 + n) + k * (k + 1)
        + 2 * (M - 1 + n - k) + k * (2 * M - 3 + 2 * n - k)
        = 2 * n * M + n * (n - 1)
  OBVIOUS
<1> QED
  BY <1>1, <1>2

(* Sets that are apart are counted one by one.                              *)
LEMMA DisjointCount ==
    ASSUME NEW A, NEW B, IsFiniteSet(A), IsFiniteSet(B), A \cap B = {}
    PROVE  IsFiniteSet(A \cup B) /\ Cardinality(A \cup B) = Cardinality(A) + Cardinality(B)
<1>1. Cardinality(A \cap B) = 0 /\ Cardinality(A) \in Nat /\ Cardinality(B) \in Nat
  BY FS_EmptySet, FS_CardinalityType
<1>2. /\ IsFiniteSet(A \cup B)
      /\ Cardinality(A \cup B) = Cardinality(A) + Cardinality(B) - Cardinality(A \cap B)
  BY FS_Union
<1> QED
  BY <1>1, <1>2

(* The attempts at their steps are finitely many, and apart.                *)
LEMMA StandingCounts ==
    ASSUME NEW a
    PROVE  /\ \A pc : /\ IsFiniteSet(Standing(a, pc))
                      /\ Cardinality(Standing(a, pc)) \in Nat
           /\ Cardinality(Standing(a, "hash")) + Cardinality(Standing(a, "count"))
                + Cardinality(Standing(a, "first")) <= Cardinality(Visitor)
<1>1. \A pc : IsFiniteSet(Standing(a, pc)) /\ Cardinality(Standing(a, pc)) \in Nat
  <2>1. \A pc : Standing(a, pc) \subseteq Visitor
    BY DEF Standing
  <2> QED
    BY <2>1, GateAssumption, FS_Subset, FS_CardinalityType
<1> DEFINE both == Standing(a, "hash") \cup Standing(a, "count")
<1>2. /\ Standing(a, "hash") \cap Standing(a, "count") = {}
      /\ both \cap Standing(a, "first") = {}
      /\ both \cup Standing(a, "first") \subseteq Visitor
  BY DEF Standing
<1>3. /\ IsFiniteSet(both)
      /\ Cardinality(both)
            = Cardinality(Standing(a, "hash")) + Cardinality(Standing(a, "count"))
  BY <1>1, <1>2, DisjointCount
<1> HIDE DEF both
<1>4. Cardinality(both \cup Standing(a, "first"))
         = Cardinality(both) + Cardinality(Standing(a, "first"))
  BY <1>1, <1>2, <1>3, DisjointCount
<1>5. Cardinality(both \cup Standing(a, "first")) <= Cardinality(Visitor)
  BY <1>2, GateAssumption, FS_Subset
<1> QED
  BY <1>1, <1>3, <1>4, <1>5

(* So they are before and after every step.                                 *)
LEMMA GateParts ==
    /\ \A pc : IsFiniteSet(In(pc)) /\ Many(pc) \in Nat /\ Many(pc)' \in Nat
    /\ Many("hash") + Many("count") + Many("first") <= Cardinality(Visitor)
    /\ (Many("hash") + Many("count") + Many("first") <= Cardinality(Visitor))'
    /\ Cardinality(Visitor) \in Nat
<1>1. \A pc : In(pc) = Standing(attempt, pc) /\ In(pc)' = Standing(attempt', pc)
  BY DEF In, At, Standing
<1>2. Cardinality(Visitor) \in Nat
  BY GateAssumption, FS_CardinalityType
<1> QED
  BY <1>1, <1>2, StandingCounts DEF Many

(* One attempt's move from a step to another changes the counts of the two. *)
LEMMA MoveCounts ==
    ASSUME GateTypeOK, NEW v \in Visitor, NEW from, NEW to, from # to,
           At(v, from), Move(v, to)
    PROVE  /\ Many(from)' = Many(from) - 1
           /\ Many(to)' = Many(to) + 1
           /\ \A pc : pc # from /\ pc # to => Many(pc)' = Many(pc)
<1>1. \A u \in Visitor : attempt'[u] = IF u = v THEN to ELSE attempt[u]
  BY DEF Move, GateTypeOK
<1>2. In(from)' = In(from) \ {v} /\ v \in In(from)
  BY <1>1 DEF In, At
<1>3. In(to)' = In(to) \cup {v} /\ v \notin In(to)
  BY <1>1 DEF In, At
<1>4. \A pc : pc # from /\ pc # to => In(pc)' = In(pc)
  BY <1>1 DEF In, At
<1>5. Many(from)' = Many(from) - 1
  BY <1>2, GateParts, FS_RemoveElement DEF Many
<1>6. Many(to)' = Many(to) + 1
  BY <1>3, GateParts, FS_AddElement DEF Many
<1> QED
  BY <1>4, <1>5, <1>6 DEF Many

(* The gate starts with nobody at it.                                       *)
LEMMA GateStarts == GateInit => GateInv
<1> SUFFICES ASSUME GateInit
             PROVE  GateInv
  OBVIOUS
<1>1. In("hash") = {} /\ In("count") = {} /\ In("first") = {}
  BY DEF GateInit, In, At
<1>2. Many("hash") = 0 /\ Many("count") = 0 /\ Many("first") = 0
  BY <1>1, FS_EmptySet DEF Many
<1>3. GateTypeOK
  BY GateAssumption DEF GateInit, GateTypeOK
<1> QED
  BY <1>2, <1>3, GateParts, GateAssumption
     DEF GateInit, GateInv, CounterLimited, UncountedKnown, HiddenLimited

(* The steps before the counting: only the move matters.                    *)
LEMMA HashingKeepsLimits ==
    ASSUME GateInv, GateTypeOK', NEW v \in Visitor,
           Precheck(v) \/ WrongPin(v) \/ RightPin(v) \/ RightPinNotCleared(v)
    PROVE  GateInv'
<1>1. /\ Many("hash") \in Nat /\ Many("count") \in Nat /\ Many("first") \in Nat
      /\ Cardinality(Visitor) \in Nat /\ MaxFailures \in Nat \ {0}
      /\ failures \in Nat /\ wrong \in Nat /\ outages \in Nat
  BY GateParts, GateAssumption DEF GateInv, GateTypeOK
<1>2. CASE Precheck(v)
  <2>1. /\ Many("hash")' = Many("hash") + 1 /\ Many("count")' = Many("count")
        /\ Many("first")' = Many("first")
    BY <1>2, MoveCounts DEF Precheck, GateInv
  <2>2. UNCHANGED <<failures, wrong, outages>> /\ failures < MaxFailures
    BY <1>2 DEF Precheck, GateOpen
  <2>3. CounterLimited'
    BY <1>1, <2>1, <2>2, GateParts DEF CounterLimited
  <2> QED
    BY <2>1, <2>2, <2>3 DEF GateInv, UncountedKnown, HiddenLimited
<1>3. CASE WrongPin(v)
  <2>1. /\ Many("hash")' = Many("hash") - 1 /\ Many("count")' = Many("count") + 1
        /\ Many("first")' = Many("first")
    BY <1>3, MoveCounts DEF WrongPin, GateInv
  <2>2. UNCHANGED <<failures, outages>> /\ wrong' = wrong + 1
    BY <1>3 DEF WrongPin
  <2>3. CounterLimited' /\ UncountedKnown'
    BY <1>1, <2>1, <2>2 DEF GateInv, CounterLimited, UncountedKnown
  <2>4. wrong' - failures' - Many("count")' - outages'
           = wrong - failures - Many("count") - outages
    BY <1>1, <2>1, <2>2
  <2>5. HiddenLimited'
    BY <2>1, <2>2, <2>4 DEF GateInv, HiddenLimited
  <2> QED
    BY <2>3, <2>5 DEF GateInv
<1>4. CASE RightPin(v) \/ RightPinNotCleared(v)
  <2>1. /\ Many("hash")' = Many("hash") - 1 /\ Many("count")' = Many("count")
        /\ Many("first")' = Many("first")
    BY <1>4, MoveCounts DEF RightPin, RightPinNotCleared, GateInv
  <2>2. \/ failures' = 0 /\ wrong' = 0 /\ outages' = 0
        \/ UNCHANGED <<failures, wrong, outages>>
    BY <1>4 DEF RightPin, RightPinNotCleared
  <2>3. CounterLimited' /\ UncountedKnown'
    BY <1>1, <2>1, <2>2 DEF GateInv, CounterLimited, UncountedKnown
  <2>4. HiddenLimited'
    BY <2>1, <2>2 DEF GateInv, HiddenLimited
  <2> QED
    BY <2>3, <2>4 DEF GateInv
<1> QED
  BY <1>2, <1>3, <1>4

(* A failure that is counted, and one that finds the counter away.          *)
LEMMA CountingKeepsLimits ==
    ASSUME GateInv, GateTypeOK', NEW v \in Visitor, CountFailure(v)
    PROVE  GateInv'
<1>1. /\ Many("hash") \in Nat /\ Many("count") \in Nat /\ Many("first") \in Nat
      /\ Cardinality(Visitor) \in Nat /\ MaxFailures \in Nat \ {0}
      /\ failures \in Nat /\ wrong \in Nat /\ outages \in Nat
  BY GateParts, GateAssumption DEF GateInv, GateTypeOK
<1>2. UNCHANGED <<wrong, outages>>
  BY DEF CountFailure
<1>3. CASE failures > 0
  <2>1. failures' = failures + 1 /\ At(v, "count") /\ Move(v, "address")
    BY <1>3 DEF CountFailure
  <2>2. /\ Many("hash")' = Many("hash") /\ Many("count")' = Many("count") - 1
        /\ Many("first")' = Many("first")
    <3>1. Many("count")' = Many("count") - 1
      BY <2>1, MoveCounts DEF GateInv
    <3>2. \A pc : pc # "count" /\ pc # "address" => Many(pc)' = Many(pc)
      BY <2>1, MoveCounts DEF GateInv
    <3> QED
      BY <3>1, <3>2
  <2>3. CounterLimited' /\ UncountedKnown'
    BY <1>1, <1>2, <2>1, <2>2 DEF GateInv, CounterLimited, UncountedKnown
  <2>4. wrong' - failures' - Many("count")' - outages'
           = wrong - failures - Many("count") - outages
    BY <1>1, <1>2, <2>1, <2>2
  <2>5. HiddenLimited'
    BY <1>3, <2>2, <2>4 DEF GateInv, HiddenLimited
  <2> QED
    BY <2>3, <2>5 DEF GateInv
<1>4. CASE failures = 0
  <2>1. failures' = 0 /\ Move(v, "first")
    BY <1>4 DEF CountFailure
  <2>2. /\ Many("hash")' = Many("hash") /\ Many("count")' = Many("count") - 1
        /\ Many("first")' = Many("first") + 1
    BY <2>1, MoveCounts DEF CountFailure, GateInv
  <2> QED
    BY <1>1, <1>2, <1>4, <2>1, <2>2
       DEF GateInv, CounterLimited, UncountedKnown, HiddenLimited
<1> QED
  BY <1>1, <1>3, <1>4

(* A first count, late or not.                                              *)
LEMMA FirstKeepsLimits ==
    ASSUME GateInv, GateTypeOK', NEW v \in Visitor, FirstFailure(v)
    PROVE  GateInv'
<1> DEFINE n == Cardinality(Visitor)
           k == Many("first")
           c == Many("count")
           bound == 2 * (n - 1) * (MaxFailures - 1 + n) - n * (n - 1)
<1>1. /\ Many("hash") \in Nat /\ c \in Nat /\ k \in Nat
      /\ n \in Nat /\ MaxFailures \in Nat \ {0} /\ bound \in Int
      /\ failures \in Nat /\ wrong \in Nat /\ outages \in Nat
  BY GateParts, GateAssumption DEF GateInv, GateTypeOK
<1>2. failures' = 1 /\ UNCHANGED <<wrong, outages>>
  BY DEF FirstFailure
<1>3. /\ Many("hash")' = Many("hash") /\ c' = c
      /\ Many("first")' = k - 1
  BY MoveCounts DEF FirstFailure, GateInv
<1>4. Many("hash") + c + k <= n /\ k - 1 \in Nat
  BY <1>3, GateParts
<1>5. CounterLimited' /\ UncountedKnown'
  BY <1>1, <1>2, <1>3, <1>4 DEF GateInv, CounterLimited, UncountedKnown
<1>6. 2 * (wrong - 1 - c - outages) + 2 * (k - 1) * (MaxFailures - 2 + n) - (k - 1) * k
        <= bound
  <2>1. CASE failures = 0
    <3>1. wrong - 1 - c - outages <= k - 1 /\ wrong - 1 - c - outages \in Int
      BY <1>1, <2>1 DEF GateInv, UncountedKnown
    <3>2. k - 1 + 1 = k
      BY <1>1
    <3>3. k <= n
      BY <1>1, <1>4
    <3> HIDE DEF n, k, c
    <3> QED
      BY <1>1, <1>4, <3>1, <3>2, <3>3, HiddenGrows DEF bound
  <2>2. CASE failures > 0
    <3> DEFINE d == wrong - failures - c - outages
    <3>1. failures - 1 <= MaxFailures - 2 + n - k
      BY <1>1 DEF GateInv, CounterLimited
    <3>2. 2 * d + 2 * k * (MaxFailures - 2 + n) - k * (k + 1) <= bound
      BY <2>2 DEF GateInv, HiddenLimited
    <3>3. d \in Int /\ failures \in Int /\ wrong - 1 - c - outages = d + failures - 1
      BY <1>1
    <3> HIDE DEF n, k, c, bound, d
    <3> QED
      BY <1>1, <3>1, <3>2, <3>3, HiddenStep
  <2> QED
    BY <1>1, <2>1, <2>2
<1>7. HiddenLimited'
  <2>1. k - 1 + 1 = k
    BY <1>1
  <2> QED
    BY <1>2, <1>3, <1>6, <2>1 DEF HiddenLimited
<1> QED
  BY <1>5, <1>7 DEF GateInv

(* A count that is lost, whichever it was to be.                            *)
LEMMA LosingKeepsLimits ==
    ASSUME GateInv, GateTypeOK', NEW v \in Visitor, CountLost(v)
    PROVE  GateInv'
<1> DEFINE n == Cardinality(Visitor)
           k == Many("first")
           c == Many("count")
           bound == 2 * (n - 1) * (MaxFailures - 1 + n) - n * (n - 1)
<1>1. /\ Many("hash") \in Nat /\ c \in Nat /\ k \in Nat
      /\ n \in Nat /\ MaxFailures \in Nat \ {0} /\ bound \in Int
      /\ failures \in Nat /\ wrong \in Nat /\ outages \in Nat
  BY GateParts, GateAssumption DEF GateInv, GateTypeOK
<1>2. UNCHANGED <<failures, wrong>> /\ outages' = outages + 1 /\ Move(v, "none")
  BY DEF CountLost
<1>3. CASE At(v, "count")
  <2>1. /\ Many("hash")' = Many("hash") /\ c' = c - 1 /\ k' = k
    BY <1>2, <1>3, MoveCounts DEF GateInv
  <2>2. CounterLimited' /\ UncountedKnown'
    BY <1>1, <1>2, <2>1 DEF GateInv, CounterLimited, UncountedKnown
  <2>3. wrong' - failures' - c' - outages' = wrong - failures - c - outages
    BY <1>1, <1>2, <2>1
  <2>4. HiddenLimited'
    BY <1>2, <2>1, <2>3 DEF GateInv, HiddenLimited
  <2> QED
    BY <2>2, <2>4 DEF GateInv
<1>4. CASE At(v, "first")
  <2>1. /\ Many("hash")' = Many("hash") /\ c' = c /\ k' = k - 1
    <3>1. Many("first")' = Many("first") - 1
      BY <1>2, <1>4, MoveCounts DEF GateInv
    <3>2. \A pc : pc # "first" /\ pc # "none" => Many(pc)' = Many(pc)
      BY <1>2, <1>4, MoveCounts DEF GateInv
    <3> QED
      BY <3>1, <3>2
  <2>2. CounterLimited' /\ UncountedKnown'
    BY <1>1, <1>2, <2>1 DEF GateInv, CounterLimited, UncountedKnown
  <2>3. HiddenLimited'
    <3> SUFFICES ASSUME failures > 0
                 PROVE  2 * (wrong - failures - c - (outages + 1))
                          + 2 * (k - 1) * (MaxFailures - 2 + n) - (k - 1) * (k - 1 + 1)
                        <= bound
      BY <1>2, <2>1 DEF HiddenLimited
    <3> DEFINE d == wrong - failures - c - outages
    <3>1. 2 * d + 2 * k * (MaxFailures - 2 + n) - k * (k + 1) <= bound
      BY DEF GateInv, HiddenLimited
    <3>2. 0 - 1 <= MaxFailures - 2 + n - k
      BY <1>1, GateParts
    <3>3. /\ d \in Int /\ wrong - failures - c - (outages + 1) = d + 0 - 1
          /\ k - 1 + 1 = k
      BY <1>1
    <3> HIDE DEF n, k, c, bound, d
    <3> QED
      BY <1>1, <3>1, <3>2, <3>3, HiddenStep
  <2> QED
    BY <2>2, <2>3 DEF GateInv
<1>5. CASE At(v, "address")
  <2>1. /\ Many("hash")' = Many("hash") /\ c' = c /\ k' = k
    <3>1. \A pc : pc # "address" /\ pc # "none" => Many(pc)' = Many(pc)
      BY <1>2, <1>5, MoveCounts DEF GateInv
    <3> QED
      BY <3>1
  <2>2. CounterLimited' /\ UncountedKnown'
    BY <1>1, <1>2, <2>1 DEF GateInv, CounterLimited, UncountedKnown
  <2>3. HiddenLimited'
    <3> SUFFICES ASSUME failures > 0
                 PROVE  2 * (wrong - failures - c - (outages + 1))
                          + 2 * k * (MaxFailures - 2 + n) - k * (k + 1) <= bound
      BY <1>2, <2>1 DEF HiddenLimited
    <3> DEFINE d == wrong - failures - c - outages
               p == 2 * k * (MaxFailures - 2 + n) - k * (k + 1)
    <3>1. 2 * d + p <= bound
      BY <1>1 DEF GateInv, HiddenLimited
    <3>2. p \in Int /\ d \in Int /\ wrong - failures - c - (outages + 1) = d - 1
      BY <1>1
    <3>3. 2 * (d - 1) + p <= bound
      BY <1>1, <3>1, <3>2
    <3> QED
      BY <1>1, <3>2, <3>3
  <2> QED
    BY <2>2, <2>3 DEF GateInv
<1> QED
  BY <1>3, <1>4, <1>5 DEF CountLost, At

(* Every step of the gate is well typed.                                    *)
LEMMA GateTyped == GateTypeOK /\ [GateNext]_gateVars => GateTypeOK'
<1> SUFFICES ASSUME GateTypeOK, [GateNext]_gateVars
             PROVE  GateTypeOK'
  OBVIOUS
<1> USE DEF GateTypeOK, At, Move
<1>1. CASE UNCHANGED gateVars
  BY <1>1 DEF gateVars
<1>2. CASE LockoutEnds
  BY <1>2, GateAssumption DEF LockoutEnds
<1>3. ASSUME NEW v \in Visitor,
             \/ Precheck(v) \/ WrongPin(v) \/ RightPin(v) \/ RightPinNotCleared(v)
             \/ CountFailure(v) \/ FirstFailure(v) \/ CountAddress(v) \/ CountLost(v)
             \/ AddressWindowEnds(v)
      PROVE  GateTypeOK'
  <2>1. CASE Precheck(v) \/ WrongPin(v) \/ RightPinNotCleared(v) \/ FirstFailure(v)
    BY <2>1 DEF Precheck, WrongPin, RightPinNotCleared, FirstFailure
  <2>2. CASE RightPin(v)
    BY <2>2, GateAssumption DEF RightPin
  <2>3. CASE CountFailure(v)
    BY <2>3 DEF CountFailure
  <2>4. CASE CountAddress(v) \/ AddressWindowEnds(v)
    BY <2>4 DEF CountAddress, AddressWindowEnds
  <2>5. CASE CountLost(v)
    BY <2>5, GateAssumption DEF CountLost
  <2> QED
    BY <1>3, <2>1, <2>2, <2>3, <2>4, <2>5
<1> QED
  BY <1>1, <1>2, <1>3 DEF GateNext

(* The limits hold after every step.                                        *)
LEMMA GateStays == GateInv /\ [GateNext]_gateVars => GateInv'
<1> SUFFICES ASSUME GateInv, [GateNext]_gateVars
             PROVE  GateInv'
  OBVIOUS
<1>1. GateTypeOK'
  BY GateTyped DEF GateInv
<1>2. ASSUME UNCHANGED attempt,
             \/ UNCHANGED <<failures, wrong, outages>>
             \/ failures' = 0 /\ wrong' = 0 /\ outages' = 0
      PROVE  GateInv'
  <2>1. \A pc : Many(pc)' = Many(pc)
    BY <1>2 DEF Many, In, At
  <2>2. /\ Many("hash") \in Nat /\ Many("count") \in Nat /\ Many("first") \in Nat
        /\ Cardinality(Visitor) \in Nat /\ MaxFailures \in Nat \ {0} /\ failures \in Nat
    BY GateParts, GateAssumption DEF GateInv, GateTypeOK
  <2>3. CounterLimited' /\ UncountedKnown'
    BY <1>2, <2>1, <2>2 DEF GateInv, CounterLimited, UncountedKnown
  <2>4. HiddenLimited'
    BY <1>2, <2>1 DEF GateInv, HiddenLimited
  <2> QED
    BY <1>1, <2>3, <2>4 DEF GateInv
<1>3. ASSUME NEW v \in Visitor, CountAddress(v)
      PROVE  GateInv'
  <2>1. \A pc \in {"hash", "count", "first"} : Many(pc)' = Many(pc)
    BY <1>3, MoveCounts DEF CountAddress, GateInv
  <2> QED
    BY <1>1, <1>3, <2>1
       DEF CountAddress, GateInv, CounterLimited, UncountedKnown, HiddenLimited
<1>4. CASE UNCHANGED gateVars \/ LockoutEnds \/ \E v \in Visitor : AddressWindowEnds(v)
  BY <1>2, <1>4 DEF gateVars, LockoutEnds, AddressWindowEnds
<1> QED
  BY <1>1, <1>3, <1>4, HashingKeepsLimits, CountingKeepsLimits, FirstKeepsLimits,
     LosingKeepsLimits DEF GateNext

(* Every reachable state of the gate is within the limits.                  *)
THEOREM GateInvariant == GateSpec => []GateInv
<1>1. GateInit => GateInv
  BY GateStarts
<1>2. GateInv /\ [GateNext]_gateVars => GateInv'
  BY GateStays
<1> QED
  BY <1>1, <1>2, PTL DEF GateSpec

(* However the attempts and the cache interleave, the wrong PINs that are   *)
(* hashed before the lockout are bounded.                                   *)
THEOREM WrongPinsBounded == GateSpec => []AttemptsBounded
<1>1. GateInv => AttemptsBounded
  <2> SUFFICES ASSUME GateInv
               PROVE  AttemptsBounded
    OBVIOUS
  <2> DEFINE n == Cardinality(Visitor)
             k == Many("first")
             c == Many("count")
  <2>1. /\ Many("hash") \in Nat /\ c \in Nat /\ k \in Nat /\ n \in Nat
        /\ MaxFailures \in Nat \ {0}
        /\ failures \in Nat /\ wrong \in Nat /\ outages \in Nat
        /\ Many("hash") + c + k <= n
    BY GateParts, GateAssumption DEF GateInv, GateTypeOK
  <2>2. 2 * (wrong - outages) <= 2 * n * MaxFailures + n * (n - 1)
    <3>1. CASE failures > 0
      <4> DEFINE d == wrong - failures - c - outages
      <4>1. wrong - outages <= d + MaxFailures - 1 + n - k
        BY <2>1 DEF GateInv, CounterLimited
      <4>2. 2 * d + 2 * k * (MaxFailures - 2 + n) - k * (k + 1)
              <= 2 * (n - 1) * (MaxFailures - 1 + n) - n * (n - 1)
        BY <3>1 DEF GateInv, HiddenLimited
      <4>3. d \in Int /\ wrong - outages \in Int /\ k <= n
        BY <2>1
      <4> HIDE DEF n, k, c, d
      <4> QED
        BY <2>1, <4>1, <4>2, <4>3, HiddenBound
    <3>2. CASE failures = 0
      <4>1. wrong - outages <= n
        BY <2>1, <3>2 DEF GateInv, UncountedKnown
      <4>2. n * MaxFailures >= n /\ n * (n - 1) >= 0
        <5> HIDE DEF n
        <5>1. \A x, y \in Nat : x * y >= 0
          OBVIOUS
        <5>2. n * (MaxFailures - 1) >= 0
          BY <2>1, <5>1
        <5>3. n = 0 \/ n - 1 \in Nat
          BY <2>1
        <5> QED
          BY <2>1, <5>1, <5>2, <5>3
      <4> HIDE DEF n
      <4> QED
        BY <2>1, <4>1, <4>2
    <3> QED
      BY <2>1, <3>1, <3>2
  <2>3. wrong <= n * MaxFailures + (n * (n - 1)) \div 2 + outages
    <3> DEFINE x == n * (n - 1)
               y == n * MaxFailures
    <3>1. x \in Int /\ y \in Int /\ 2 * (wrong - outages) <= 2 * y + x
      BY <2>1, <2>2
    <3> HIDE DEF x, y
    <3>2. wrong <= y + x \div 2 + outages
      BY <2>1, <3>1
    <3> QED
      BY <3>2 DEF x, y
  <2> QED
    BY <2>3 DEF AttemptsBounded
<1> QED
  BY <1>1, GateInvariant, PTL
-----------------------------------------------------------------------------
(* The three side by side.                                                  *)

(* Side by side, each of the three behaves as it does alone, so all that is *)
(* proved of one holds here too.                                            *)
LEMMA AccessIsAllThree == AccessSpec => DoorSpec /\ LinkSpec /\ GateSpec
<1>1. AccessInit => DoorInit /\ LinkInit /\ GateInit
  BY DEF AccessInit
<1>2. [AccessNext]_<<doorVars, linkVars, gateVars, part>> =>
         [DoorNext]_doorVars /\ [LinkNext]_linkVars /\ [GateNext]_gateVars
  BY DEF AccessNext
<1> QED
  BY <1>1, <1>2, PTL DEF AccessSpec, DoorSpec, LinkSpec, GateSpec

(* Door, links and gate are well typed in every reachable state.            *)
THEOREM AccessTyped == AccessSpec => []AccessTypeOK
<1>1. DoorInv /\ LinkInv /\ GateInv => AccessTypeOK
  BY DEF DoorInv, LinkInv, GateInv, AccessTypeOK
<1> QED
  BY <1>1, AccessIsAllThree, DoorInvariant, LinkInvariant, GateInvariant, PTL
=============================================================================
