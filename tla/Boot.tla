----------------------------------- MODULE Boot -----------------------------------
(***************************************************************************)
(* From power-up to a running radio (app_main.c, wifi.c): app_main waits   *)
(* for the event handler of the WiFi stack to report an address, loads the *)
(* playlist and starts the radio.  The stack queues its events; one task   *)
(* hands them to event_handler in order.  The access point may let the     *)
(* station go at any time.                                                 *)
(*                                                                         *)
(* ui_queue_event does nothing here: init_hardware does not call ui_init.  *)
(***************************************************************************)
EXTENDS Playlist

CONSTANT MaxLosses      \* bound: times the access point lets the station go

ASSUME BootAssumption == MaxLosses \in Nat

VARIABLES
  mainpc,               \* where app_main is
  wakes,                \* xEventGroupWaitBits has seen the bit
  bit,                  \* CONNECTED_BIT
  station,              \* "off", "idle", "trying", "associated", "address"
  wifiEvents,           \* events the stack has reported, not yet handled
  losses,
  presses               \* times the button has moved the cursor

wifiVars == <<bit, station, wifiEvents, losses>>
bootVars == <<playlistVars, mainpc, wakes, wifiVars, presses>>

BootInit ==
  /\ PlaylistInit
  /\ mainpc = "start_wifi" /\ wakes = FALSE
  /\ bit = FALSE /\ station = "off" /\ wifiEvents = <<>> /\ losses = 0
  /\ presses = 0

-----------------------------------------------------------------------------
(* app_main                                                                *)

(* initialise_wifi: esp_wifi_start reports that the station has started.   *)
initialise_wifi ==
  /\ mainpc = "start_wifi"
  /\ station' = "idle" /\ wifiEvents' = <<"STA_START">>
  /\ mainpc' = "wait"
  /\ UNCHANGED <<playlistVars, wakes, bit, losses, presses>>

(* xEventGroupWaitBits looks once, and else sleeps until the bit is set.   *)
WaitLooks ==
  /\ mainpc = "wait"
  /\ mainpc' = IF bit THEN "load" ELSE "asleep"
  /\ UNCHANGED <<playlistVars, wakes, wifiVars, presses>>

WaitWakes ==
  /\ mainpc = "asleep" /\ wakes
  /\ mainpc' = "load"
  /\ UNCHANGED <<playlistVars, wakes, wifiVars, presses>>

Loads ==
  /\ mainpc = "load"
  /\ ReadsLine \/ LoadEnds
  /\ UNCHANGED <<mainpc, wakes, wifiVars, presses>>

(* web_radio_init and web_radio_start: module RadioControl.                *)
StartsRadio ==
  /\ mainpc = "load" /\ ~loading
  /\ mainpc' = "radio"
  /\ UNCHANGED <<playlistVars, wakes, wifiVars, presses>>

MainStep == initialise_wifi \/ WaitLooks \/ WaitWakes \/ Loads \/ StartsRadio

(* The button goes to the next entry; nothing calls playlist_prev yet.     *)
Moves ==
  /\ mainpc = "radio" /\ presses < Len(elems) + 1
  /\ presses' = presses + 1
  /\ playlist_next \/ playlist_prev
  /\ UNCHANGED <<mainpc, wakes, wifiVars>>

-----------------------------------------------------------------------------
(* event_handler                                                           *)

next == Head(wifiEvents)
esp_wifi_connect == station' = IF station = "idle" THEN "trying" ELSE station

Started ==
  /\ wifiEvents # <<>> /\ next = "STA_START"
  /\ esp_wifi_connect
  /\ wifiEvents' = Tail(wifiEvents)
  /\ UNCHANGED <<playlistVars, mainpc, wakes, bit, losses, presses>>

(* Mutant: setting the bit wakes nobody who is asleep.                     *)
GotIp_NoWake ==
  /\ wifiEvents # <<>> /\ next = "STA_GOT_IP"
  /\ bit' = TRUE
  /\ wifiEvents' = Tail(wifiEvents)
  /\ UNCHANGED <<playlistVars, mainpc, wakes, station, losses, presses>>

(* xEventGroupSetBits: whoever is asleep has seen the bit, even if it is   *)
(* cleared before they run.                                                *)
GotIp ==
  /\ wifiEvents # <<>> /\ next = "STA_GOT_IP"
  /\ bit' = TRUE /\ wakes' = (wakes \/ mainpc = "asleep")
  /\ wifiEvents' = Tail(wifiEvents)
  /\ UNCHANGED <<playlistVars, mainpc, station, losses, presses>>

(* Mutant: the bit stays.                                                  *)
Disconnected_KeepsBit ==
  /\ wifiEvents # <<>> /\ next = "STA_DISCONNECTED"
  /\ esp_wifi_connect
  /\ wifiEvents' = Tail(wifiEvents)
  /\ UNCHANGED <<playlistVars, mainpc, wakes, bit, losses, presses>>

Disconnected ==
  /\ wifiEvents # <<>> /\ next = "STA_DISCONNECTED"
  /\ esp_wifi_connect /\ bit' = FALSE
  /\ wifiEvents' = Tail(wifiEvents)
  /\ UNCHANGED <<playlistVars, mainpc, wakes, losses, presses>>

HandlerStep == Started \/ GotIp \/ Disconnected

-----------------------------------------------------------------------------
(* The WiFi stack and the access point                                     *)

Associates ==
  /\ station = "trying" /\ station' = "associated"
  /\ UNCHANGED <<playlistVars, mainpc, wakes, bit, wifiEvents, losses, presses>>

GetsAddress ==
  /\ station = "associated" /\ station' = "address"
  /\ wifiEvents' = Append(wifiEvents, "STA_GOT_IP")
  /\ UNCHANGED <<playlistVars, mainpc, wakes, bit, losses, presses>>

(* An attempt that fails is reported in the same way.                      *)
LosesLink ==
  /\ station \in {"trying", "associated", "address"} /\ losses < MaxLosses
  /\ station' = "idle" /\ losses' = losses + 1
  /\ wifiEvents' = Append(wifiEvents, "STA_DISCONNECTED")
  /\ UNCHANGED <<playlistVars, mainpc, wakes, bit, presses>>

StackStep == Associates \/ GetsAddress

BootNext == MainStep \/ Moves \/ HandlerStep \/ StackStep \/ LosesLink

BootSpec == BootInit /\ [][BootNext]_bootVars

(* The tasks are run, and the access point answers attempts to connect.    *)
FairBootSpec ==
  /\ BootSpec
  /\ WF_bootVars(MainStep) /\ WF_bootVars(HandlerStep) /\ WF_bootVars(StackStep)

-----------------------------------------------------------------------------
LinkTypeOK ==
  /\ mainpc \in {"start_wifi", "wait", "asleep", "load", "radio"}
  /\ wakes \in BOOLEAN /\ bit \in BOOLEAN
  /\ station \in {"off", "idle", "trying", "associated", "address"}
  /\ wifiEvents \in Seq({"STA_START", "STA_GOT_IP", "STA_DISCONNECTED"})
  /\ losses \in Nat

(* When the handler has nothing to do, the bit says whether the station    *)
(* has an address, however often the link came and went; and the radio     *)
(* never starts before there was one.                                      *)
BitFollowsLink ==
  /\ wifiEvents = <<>> => bit = (station = "address")
  /\ mainpc \in {"load", "radio"} => station = "address" \/ losses > 0

(* The radio starts, even when the link is lost again before app_main has  *)
(* run; and a station that lost its access point gets back to it.          *)
RadioStarts ==
  /\ <>(mainpc = "radio" \/ crashed)
  /\ station = "idle" ~> station = "address"

=============================================================================
