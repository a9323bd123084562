----------------------------- MODULE HostWindow -----------------------------
(***************************************************************************)
(* The window of the application (app/mainwindow.cpp): the lists of        *)
(* devices and endpoints, Select, Refresh, Start and the output buttons,   *)
(* while devices come and go.  All slots run in one thread.  An entry of   *)
(* the device list is the device that it was made for; the code knows its  *)
(* text and its position only, and opens the device that the driver has at *)
(* that position by then.                                                  *)
(***************************************************************************)
EXTENDS Naturals, SequencesExt

CONSTANTS
  Devices,
  NameOf,     \* the text of a device in the list
  AltSettings \* the alternate settings of a device: sequences of endpoints but 0

Endpoint == [address : Nat, bIn : BOOLEAN, bulk : BOOLEAN]

NoDevice == "no device"
NoEpt == [device |-> NoDevice, alt |-> 0, address |-> 0]

ASSUME WindowAssumption ==
  /\ NoDevice \notin Devices /\ DOMAIN NameOf = Devices
  /\ \A d \in Devices : AltSettings[d] \in Seq(Seq(Endpoint)) /\ AltSettings[d] # <<>>

VARIABLES
  plugged,               \* the devices as the driver numbers them
  cb_device, device_index,
  cb_in_ept, in_index,   \* entries: alternate setting and address; index 0 is none
  cb_out_ept, out_index,
  opened,                \* the device that selectedDevice has open
  BulkInEpt, BulkOutEpt,
  communication_enabled,
  failed,                \* the function whose assertion failed, or "none"
  fresh,                 \* history: no device came or went since the list was made,
  openedFresh,           \* nor between that and the last Open;
  live,                  \* the device was not opened again since Select;
  picked                 \* what the lists showed when Select was clicked

listVars == <<cb_device, device_index, cb_in_ept, in_index, cb_out_ept, out_index>>
deviceVars == <<opened, openedFresh, live>>
selectVars == <<BulkInEpt, BulkOutEpt, communication_enabled, picked>>
windowVars == <<plugged, listVars, deviceVars, selectVars, failed, fresh>>

Nothing == [device |-> NoDevice, in |-> 0, out |-> 0]

-----------------------------------------------------------------------------
(* CyAPI. *)

\* Open(i): the device that is at that position now.
Opening(i) == IF i <= Len(plugged) THEN plugged[i] ELSE NoDevice

\* EndPointOf: looks in the alternate setting that was set last.
EndPointOf(address) ==
  LET alt == IF opened = NoDevice THEN 0 ELSE Len(AltSettings[opened])
      found == {k \in DOMAIN AltSettings[opened][alt] :
                  AltSettings[opened][alt][k].address = address}
  IN IF alt = 0 \/ found = {} THEN NoEpt
     ELSE [device |-> opened, alt |-> alt, address |-> address]

-----------------------------------------------------------------------------
(* The lists. *)

\* The entries for the endpoints of an alternate setting.
Shown(endpoints, alt, in) ==
  LET upTo[k \in 0 .. Len(endpoints)] ==
        IF k = 0 THEN <<>>
        ELSE IF endpoints[k].bulk /\ endpoints[k].bIn = in
             THEN Append(upTo[k - 1], [alt |-> alt, address |-> endpoints[k].address])
             ELSE upTo[k - 1]
  IN  upTo[Len(endpoints)]

\* The entries of an endpoint list.
Entries(d, in) ==
  FlattenSeq([i \in DOMAIN AltSettings[d] |-> Shown(AltSettings[d][i], i, in)])

\* Mutant: the lists are kept when no device is left.
get_endpoint_for_device_Keep(i) ==
  IF i = 0 THEN UNCHANGED <<opened, live, cb_in_ept, cb_out_ept, in_index, out_index>>
  ELSE /\ opened' = Opening(i) /\ live' = FALSE
       /\ cb_in_ept' = IF opened' = NoDevice THEN <<>> ELSE Entries(opened', TRUE)
       /\ cb_out_ept' = IF opened' = NoDevice THEN <<>> ELSE Entries(opened', FALSE)
       /\ in_index' = IF cb_in_ept' = <<>> THEN 0 ELSE 1
       /\ out_index' = IF cb_out_ept' = <<>> THEN 0 ELSE 1

\* Both lists are cleared first; without a device the old one stays open.
get_endpoint_for_device(i) ==
  /\ opened' = IF i = 0 THEN opened ELSE Opening(i)
  /\ live' = (live /\ i = 0)
  /\ LET d == IF i = 0 THEN NoDevice ELSE opened'
     IN /\ cb_in_ept' = IF d = NoDevice THEN <<>> ELSE Entries(d, TRUE)
        /\ cb_out_ept' = IF d = NoDevice THEN <<>> ELSE Entries(d, FALSE)
  /\ in_index' = IF cb_in_ept' = <<>> THEN 0 ELSE 1
  /\ out_index' = IF cb_out_ept' = <<>> THEN 0 ELSE 1

\* The first entry with the text of the one that was chosen before, else the first.
Kept(text) ==
  LET same == {k \in DOMAIN plugged : NameOf[plugged[k]] = text}
  IN IF plugged = <<>> THEN 0 ELSE IF same = {} THEN 1 ELSE Min(same)

Text == IF cb_device = <<>> THEN "" ELSE NameOf[cb_device[device_index]]

\* get_devices.  Clearing the list, its first entry and the choice of the last line
\* each signal a new index: get_endpoint_for_device runs up to three times, the last
\* time for the entry that stays.
on_btn_refresh_clicked ==
  /\ failed = "none"
  /\ cb_device' = plugged
  /\ device_index' = Kept(Text)
  /\ get_endpoint_for_device(device_index')
  /\ fresh' = TRUE
  /\ openedFresh' = (openedFresh \/ device_index' # 0)
  /\ UNCHANGED <<plugged, selectVars, failed>>

on_cb_device_currentIndexChanged ==
  /\ failed = "none"
  /\ \E i \in DOMAIN cb_device \ {device_index} :
       device_index' = i /\ get_endpoint_for_device(i)
  /\ openedFresh' = fresh
  /\ UNCHANGED <<plugged, cb_device, selectVars, failed, fresh>>

ChooseEndpoints ==
  /\ failed = "none"
  /\ \/ in_index' \in DOMAIN cb_in_ept \ {in_index} /\ UNCHANGED out_index
     \/ out_index' \in DOMAIN cb_out_ept \ {out_index} /\ UNCHANGED in_index
  /\ UNCHANGED <<plugged, cb_device, device_index, cb_in_ept, cb_out_ept, deviceVars,
                 selectVars, failed, fresh>>

-----------------------------------------------------------------------------
(* Select and the transfers. *)

\* Mutant: both from the list of the IN endpoints.
select_endpoints_In ==
  /\ BulkOutEpt' = EndPointOf(cb_in_ept[in_index].address)
  /\ BulkInEpt' = EndPointOf(cb_in_ept[in_index].address)

select_endpoints ==
  /\ BulkOutEpt' = EndPointOf(cb_out_ept[out_index].address)
  /\ BulkInEpt' = EndPointOf(cb_in_ept[in_index].address)

on_btn_select_clicked ==
  /\ failed = "none"
  /\ IF in_index = 0 \/ out_index = 0
     THEN failed' = "select_endpoints" /\ UNCHANGED <<selectVars, live>>
     ELSE /\ select_endpoints
          /\ communication_enabled' =
               (communication_enabled \/ NoEpt \notin {BulkOutEpt', BulkInEpt'})
          /\ live' = TRUE
          /\ picked' = [device |-> cb_device[device_index],
                        in |-> cb_in_ept[in_index], out |-> cb_out_ept[out_index]]
          /\ UNCHANGED failed
  /\ UNCHANGED <<plugged, listVars, opened, openedFresh, fresh>>

\* Only the assertions of send_bulk and send_and_read_bulk concern the window.
handle_button ==
  /\ failed = "none"
  /\ failed' = IF BulkOutEpt = NoEpt THEN "send_bulk" ELSE "none"
  /\ UNCHANGED <<plugged, listVars, deviceVars, selectVars, fresh>>

StartGoes == communication_enabled

on_start_btn_clicked ==
  /\ failed = "none" /\ StartGoes
  /\ failed' = IF BulkInEpt = NoEpt THEN "send_and_read_bulk"
               ELSE IF BulkOutEpt = NoEpt THEN "send_bulk" ELSE "none"
  /\ UNCHANGED <<plugged, listVars, deviceVars, selectVars, fresh>>

-----------------------------------------------------------------------------

\* A device comes, at any position, or goes.
Hotplug ==
  /\ \/ \E d \in Devices \ Range(plugged), i \in 1..(Len(plugged) + 1) :
          plugged' = InsertAt(plugged, i, d)
     \/ \E i \in DOMAIN plugged : plugged' = RemoveAt(plugged, i)
  /\ fresh' = FALSE
  /\ UNCHANGED <<listVars, deviceVars, selectVars, failed>>

\* The constructor.
WindowInit ==
  /\ plugged \in {<<>>} \cup {<<d>> : d \in Devices}
  /\ cb_device = plugged /\ device_index = Len(plugged)
  /\ opened = Opening(1)
  /\ cb_in_ept = IF opened = NoDevice THEN <<>> ELSE Entries(opened, TRUE)
  /\ cb_out_ept = IF opened = NoDevice THEN <<>> ELSE Entries(opened, FALSE)
  /\ in_index = (IF cb_in_ept = <<>> THEN 0 ELSE 1)
  /\ out_index = (IF cb_out_ept = <<>> THEN 0 ELSE 1)
  /\ BulkInEpt = NoEpt /\ BulkOutEpt = NoEpt /\ communication_enabled = FALSE
  /\ failed = "none" /\ fresh = TRUE /\ openedFresh = TRUE /\ live = FALSE
  /\ picked = Nothing

WindowNext ==
  \/ on_btn_refresh_clicked \/ on_cb_device_currentIndexChanged \/ ChooseEndpoints
  \/ on_btn_select_clicked \/ handle_button \/ on_start_btn_clicked \/ Hotplug

WindowSpec == WindowInit /\ [][WindowNext]_windowVars

-----------------------------------------------------------------------------
(* Properties. *)

\* The endpoint lists are those of the device that is open, which is the one the device
\* list shows unless a device came or went before it was opened; without an entry in
\* the device list they are empty (get_endpoint_for_device, lines 426-471).
ListsOfDevice ==
  /\ device_index = 0 => cb_in_ept = <<>> /\ cb_out_ept = <<>>
  /\ device_index # 0 /\ opened # NoDevice =>
       cb_in_ept = Entries(opened, TRUE) /\ cb_out_ept = Entries(opened, FALSE)
  /\ device_index # 0 /\ openedFresh => opened = cb_device[device_index]

\* Until the device is opened again the endpoints are those that were chosen when Select
\* was clicked, each in its direction (select_endpoints, lines 367-386).
EndpointsAsPicked ==
  live =>
    /\ BulkInEpt.alt = picked.in.alt /\ BulkInEpt.address = picked.in.address
    /\ BulkOutEpt.alt = picked.out.alt /\ BulkOutEpt.address = picked.out.address
    /\ openedFresh => BulkInEpt.device = picked.device /\ BulkOutEpt.device = picked.device

\* The assertion at line 207: no button sends without an endpoint.
ButtonHasEndpoint == failed # "send_bulk"
=============================================================================
