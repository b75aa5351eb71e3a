------------------------------- MODULE Portal -------------------------------
(***************************************************************************)
(* What the portal stores: platforms, presets, messages and run settings.  *)
(* They share no state, so one of them moves in each behaviour.            *)
(***************************************************************************)
EXTENDS Platforms, Presets, JobMessages, RunSettings

VARIABLE part  \* the one that moves

Parts == {"platforms", "presets", "messages", "settings"}
portalVars == <<part, vars, presetVars, messageVars, settingVars>>

PortalAssumption ==
  /\ PlatformsAssumption /\ PresetsAssumption
  /\ JobMessagesAssumption /\ RunSettingsAssumption

ASSUME PartsAreSound == PortalAssumption

PortalInit ==
  /\ part \in Parts
  /\ Init /\ PresetsInit /\ MessagesInit /\ SettingsInit
  /\ part # "messages" => view.at = "submitted"

PortalNext ==
  \/ /\ part = "platforms" /\ Next
     /\ UNCHANGED <<part, presetVars, messageVars, settingVars>>
  \/ /\ part = "presets" /\ PresetsNext
     /\ UNCHANGED <<part, vars, messageVars, settingVars>>
  \/ /\ part = "messages" /\ MessagesNext
     /\ UNCHANGED <<part, vars, presetVars, settingVars>>
  \/ /\ part = "settings" /\ SettingsNext
     /\ UNCHANGED <<part, vars, presetVars, messageVars>>

PortalSpec == PortalInit /\ [][PortalNext]_portalVars

(* The variables of each module have their types.                          *)
PortalTypeOK ==
  /\ part \in Parts
  /\ TypeOK /\ PresetsTypeOK /\ MessagesTypeOK /\ SettingsTypeOK

=============================================================================
