---------------------------- MODULE GalleryDoor ----------------------------
(***************************************************************************)
(* Who may look at a published gallery: the photographer's PATCH, which     *)
(* reads the row, changes the PIN, and then writes every column of what it  *)
(* read (gallery/serializers.py, gallery/views.py); guests who trade the    *)
(* PIN for a token that carries pin_version (client_views.py,               *)
(* client_auth.py); the share code, and the expiry stamp of a publication.  *)
(* No request holds a lock or a transaction over its steps.  The mail that  *)
(* a publication queues last changes nothing here and is left out.          *)
(*                                                                          *)
(* PINs, share codes and expiry dates are numbered in order of creation;    *)
(* 0 is no PIN and no expiry.                                               *)
(***************************************************************************)
EXTENDS Integers, FiniteSets

CONSTANTS
    Editor,         \* the photographer's concurrent requests
    Guest,          \* browsers that know the PIN and the code of the day
    MaxPins,        \* bound: PINs set
    MaxCodes,       \* bound: share codes issued
    MaxStamps       \* bound: expiry dates stamped

ASSUME DoorAssumption ==
    /\ IsFiniteSet(Editor) /\ IsFiniteSet(Guest)
    /\ MaxPins \in Nat \ {0} /\ MaxCodes \in Nat /\ MaxStamps \in Nat

VARIABLES
    event,      \* the Event row: PIN, pin_version, published, expiry, code
    edit,       \* PATCH requests: what they read and what they still do
    pins,       \* PINs chosen so far
    codes,      \* share codes issued so far
    stamps,     \* expiry dates stamped so far, and how many have passed
    guest,      \* guest-access requests past the PIN, with the row they read
    token,      \* each guest's token, and the session row behind its cookie
    undone      \* history: columns that some request wrote back, or counted on from, a read
                \* another request had overtaken

doorVars == <<event, edit, pins, codes, stamps, guest, token, undone>>

NoPin == 0
Quiet == [pc |-> "quiet"]
NoToken == [pv |-> -1, pin |-> NoPin]
Row == [pin : 0..MaxPins, pv : Nat, published : BOOLEAN,
        expiry : 0..MaxStamps, code : 0..MaxCodes]

DoorTypeOK ==
    /\ event \in Row
    /\ edit \in [Editor -> {Quiet} \cup [pc : {"pin", "save"}, row : Row]
                        \cup [pc : {"stamp"}, row : [expiry : 0..MaxStamps]]]
    /\ pins \in 0..MaxPins
    /\ codes \in 0..MaxCodes
    /\ stamps \in [made : 0..MaxStamps, past : 0..MaxStamps]
    /\ guest \in [Guest -> {Quiet} \cup
                  [pc : {"issue"}, row : [pv : Nat, pin : 0..MaxPins]]]
    /\ token \in [Guest -> [pv : Nat \cup {-1}, pin : 0..MaxPins]]
    /\ undone \subseteq {"pv", "expiry"}

(* A gallery as EventSerializer.create leaves it: unpublished, and with the *)
(* version 1 if it was given a PIN.                                         *)
Created(withPin) ==
    [pin |-> IF withPin THEN 1 ELSE NoPin, pv |-> IF withPin THEN 1 ELSE 0,
     published |-> FALSE, expiry |-> 0, code |-> 0]

DoorInit ==
    /\ \E withPin \in BOOLEAN : event = Created(withPin) /\ pins = event.pin
    /\ edit = [e \in Editor |-> Quiet]
    /\ codes = 0
    /\ stamps = [made |-> 0, past |-> 0]
    /\ guest = [v \in Guest |-> Quiet]
    /\ token = [v \in Guest |-> NoToken]
    /\ undone = {}
-----------------------------------------------------------------------------
(* PATCH of a gallery.                                                      *)

(* get_object(), before anything is decided.                                *)
EditRead(e) ==
    /\ edit[e] = Quiet
    /\ edit' = [edit EXCEPT ![e] = [pc |-> "pin", row |-> event]]
    /\ UNCHANGED <<event, pins, codes, stamps, guest, token, undone>>

(* History: columns written by e that are no longer what e has read.        *)
Overtaken(e, columns) ==
    undone' = undone \cup {c \in columns : edit[e].row[c] # event[c]}

(* set_pin: the version read with the row, plus one.                        *)
WithPin(row, pin) == [row EXCEPT !.pin = pin, !.pv = @ + 1]

(* save(update_fields=[hash, version]) of a PIN that is set or cleared.     *)
EditPin(e) ==
    /\ edit[e].pc = "pin"
    /\ edit[e].row.pv < MaxPins
    /\ \E pin \in {NoPin, pins + 1} :
          LET row == WithPin(edit[e].row, pin)
          IN  /\ pin <= MaxPins
              /\ pins' = IF pin = NoPin THEN pins ELSE pin
              /\ event' = [event EXCEPT !.pin = row.pin, !.pv = row.pv]
              /\ edit' = [edit EXCEPT ![e] = [pc |-> "save", row |-> row]]
    /\ Overtaken(e, {"pv"})
    /\ UNCHANGED <<codes, stamps, guest, token>>

EditKeepPin(e) ==
    /\ edit[e].pc = "pin"
    /\ edit' = [edit EXCEPT ![e].pc = "save"]
    /\ UNCHANGED <<event, pins, codes, stamps, guest, token, undone>>

Publishing(e, published) == published /\ ~edit[e].row.published

(* No PIN, no publication; a PIN cleared by the same PATCH stays cleared.   *)
EditRefuse(e) ==
    /\ edit[e].pc = "save"
    /\ Publishing(e, TRUE) /\ edit[e].row.pin = NoPin
    /\ edit' = [edit EXCEPT ![e] = Quiet]
    /\ UNCHANGED <<event, pins, codes, stamps, guest, token, undone>>

(* ModelSerializer.update saves every column of the row as it was read.     *)
EditSave(e) ==
    /\ edit[e].pc = "save"
    /\ \E published \in BOOLEAN :
          LET row == [edit[e].row EXCEPT !.published = published]
          IN  /\ ~(Publishing(e, published) /\ row.pin = NoPin)
              /\ event' = row
              /\ edit' = [edit EXCEPT ![e] =
                    IF Publishing(e, published) THEN [pc |-> "stamp", row |-> [expiry |-> row.expiry]]
                    ELSE Quiet]
    /\ Overtaken(e, {"pv", "expiry"})
    /\ UNCHANGED <<pins, codes, stamps, guest, token>>

(* Mutant: a second publication starts the gallery's days again.            *)
NeedsStamp(row) == TRUE

(* expires_at is stamped on the first publication and not again.            *)
NeverStamped(row) == row.expiry = 0

(* save(update_fields=[expires_at]); a plan of zero days stamps nothing.    *)
Stamp(e) ==
    /\ edit[e].pc = "stamp"
    /\ \/ NeverStamped(edit[e].row)
          /\ stamps.made < MaxStamps
          /\ stamps' = [stamps EXCEPT !.made = @ + 1]
          /\ event' = [event EXCEPT !.expiry = stamps'.made]
          /\ Overtaken(e, {"expiry"})
       \/ UNCHANGED <<event, stamps, undone>>
    /\ edit' = [edit EXCEPT ![e] = Quiet]
    /\ UNCHANGED <<pins, codes, guest, token>>

(* The web worker dies between two of the steps.                            *)
EditDies(e) ==
    /\ edit[e] # Quiet
    /\ edit' = [edit EXCEPT ![e] = Quiet]
    /\ UNCHANGED <<event, pins, codes, stamps, guest, token, undone>>

(* UPDATE of one column, by a request of the photographer's own.            *)
RotateCode ==
    /\ codes < MaxCodes
    /\ codes' = codes + 1
    /\ event' = [event EXCEPT !.code = codes']
    /\ UNCHANGED <<edit, pins, stamps, guest, token, undone>>

(* The date of the last stamp comes; it is the row's own that matters.      *)
DatePasses ==
    /\ stamps.past < stamps.made
    /\ stamps' = [stamps EXCEPT !.past = stamps.made]
    /\ UNCHANGED <<event, edit, pins, codes, guest, token, undone>>
-----------------------------------------------------------------------------
(* Guests.                                                                  *)

(* get_gallery: published, and not past its day.                            *)
Open == event.published /\ (event.expiry = 0 \/ event.expiry > stamps.past)

(* A token is accepted while it carries the row's pin_version.              *)
Accepted(v) == token[v] # NoToken /\ token[v].pv = event.pv

(* What the detail view, the scene pages and the favorites all ask first.   *)
CanView(v) == Open /\ Accepted(v)

(* A guest with the PIN of the row just read is past the PIN gate; one with *)
(* a token that is still good is answered with that.                        *)
GuestEnters(v) ==
    /\ guest[v] = Quiet
    /\ Open
    /\ ~Accepted(v)
    /\ event.pin # NoPin
    /\ guest' = [guest EXCEPT ![v] = [pc |-> "issue",
                                         row |-> [pv |-> event.pv, pin |-> event.pin]]]
    /\ UNCHANGED <<event, edit, pins, codes, stamps, token, undone>>

(* Mutant: the token gets the version of the row as it is now.              *)
GuestIssueFresh(v) ==
    /\ guest[v].pc = "issue"
    /\ token' = [token EXCEPT ![v] = [pv |-> event.pv, pin |-> guest[v].row.pin]]
    /\ guest' = [guest EXCEPT ![v] = Quiet]
    /\ UNCHANGED <<event, edit, pins, codes, stamps, undone>>

(* The token carries the version read together with the hash it passed.     *)
GuestIssue(v) ==
    /\ guest[v].pc = "issue"
    /\ token' = [token EXCEPT ![v] = [pv |-> guest[v].row.pv, pin |-> guest[v].row.pin]]
    /\ guest' = [guest EXCEPT ![v] = Quiet]
    /\ UNCHANGED <<event, edit, pins, codes, stamps, undone>>

(* Logout clears the cookies; so does their age.                            *)
GuestLeaves(v) ==
    /\ token[v] # NoToken
    /\ token' = [token EXCEPT ![v] = NoToken]
    /\ UNCHANGED <<event, edit, pins, codes, stamps, guest, undone>>

DoorNext ==
    \/ \E e \in Editor : \/ EditRead(e) \/ EditPin(e) \/ EditKeepPin(e) \/ EditRefuse(e)
                         \/ EditSave(e) \/ Stamp(e) \/ EditDies(e)
    \/ \E v \in Guest : GuestEnters(v) \/ GuestIssue(v) \/ GuestLeaves(v)
    \/ RotateCode \/ DatePasses

DoorSpec == DoorInit /\ [][DoorNext]_doorVars
-----------------------------------------------------------------------------
(* "Bumped on PIN set/rotate/clear so outstanding GUEST JWTs die            *)
(* immediately" (gallery/models.py:86): whoever is let in as a guest knows  *)
(* the PIN of the moment, unless one PATCH took another's version for its   *)
(* own next one, or wrote an older one back.                                *)
RotationRevokes ==
    "pv" \in undone \/ \A v \in Guest : CanView(v) => token[v].pin = event.pin

(* "Issue a new public share_code; old code 404s" (gallery/models.py:159):  *)
(* a code that was replaced never opens the gallery again, whatever a PATCH *)
(* in progress has read.                                                    *)
OldCodesDead == [][event'.code >= event.code]_doorVars

(* An expiry, once stamped, is neither lost nor moved by a later PATCH or   *)
(* publication (gallery/ttl.py:37-38), only by one that had read the row    *)
(* before.                                                                  *)
ExpiryKept ==
    [][event.expiry # 0 => event'.expiry = event.expiry \/ "expiry" \in undone']_doorVars
=============================================================================
