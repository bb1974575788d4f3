----------------------------- MODULE ConsoleSettings -----------------------------
(***************************************************************************)
(* The settings page of the console. The form stands for all the settings  *)
(* it shows: one value of them (text, number or switch alike), and the     *)
(* switch of Bark, which needs a device key. The key stands for the three  *)
(* secrets, which are never shown and are sent only when typed anew. What  *)
(* the form does not show is one more setting, `hidden`. The server does    *)
(* its part of a request at one time and its answer arrives at another, or  *)
(* never: what is read by then may have been stored over.                   *)
(***************************************************************************)
EXTENDS Naturals

CONSTANTS NoKey, DeviceKeys,
          MaxEdits       \* what the administrator does, and others store

ASSUME ConsoleSettingsAssumption == MaxEdits \in Nat

VARIABLES stored,        \* server: [value, bark, key, hidden]
          form,          \* the form: [value, bark]
          typedKey, configured,
          settingsLoading, loadReply,  \* the GET in flight, and its answer
          settingsSave, saveReply,     \* the PATCH in flight, or NoSave, and its answer
          barkTests, exports,  \* the flags barkTesting and exporting
          loadError, edits

settingsCalls == <<settingsLoading, loadReply, settingsSave, saveReply>>
settingsVars == <<stored, form, typedKey, configured, settingsCalls, barkTests, exports, loadError, edits>>

NoSave == [value |-> "none"]
\* An answer that the server has not given yet, and one that brings nothing.
Waiting == [value |-> "waiting"]
Lost == [value |-> "lost"]
\* What a setting may hold: nothing yet, what cannot be used, or a proper value.
Held == {"unset", "invalid", "default", "other"}
\* normalizeSettings: whatever cannot be used is shown as the default.
Normalize(v) == IF v \in {"unset", "invalid"} THEN "default" ELSE v
emptySettings == [value |-> "default", bark |-> FALSE]
Shown(s) == [value |-> Normalize(s.value), bark |-> s.bark]
Edit == edits < MaxEdits /\ edits' = edits + 1
\* The form is not there while the page loads, and is there after a failed load.
FormShown == ~settingsLoading

SettingsInit ==
    /\ stored \in [value : {"unset", "other"}, bark : {FALSE}, key : DeviceKeys \union {NoKey},
                   hidden : {"kept"}]
    /\ form = emptySettings /\ typedKey = NoKey /\ configured = FALSE
    /\ settingsLoading = TRUE /\ loadReply = Waiting
    /\ settingsSave = NoSave /\ saveReply = Waiting /\ barkTests = FALSE /\ exports = FALSE
    /\ loadError = FALSE /\ edits = 0

\* The button of the page's head and the one of the error banner, which a load in
\* flight disables and hides.
Reload ==
    /\ Edit
    /\ ~settingsLoading
    /\ settingsLoading' = TRUE /\ loadError' = FALSE
    /\ UNCHANGED <<stored, form, typedKey, configured, loadReply, settingsSave, saveReply,
                   barkTests, exports>>
\* What an answer of the server puts into the form and the secrets' fields.
Accept(s) ==
    /\ form' = Shown(s)
    /\ configured' = (s.key # NoKey) /\ typedKey' = NoKey
ServeLoad ==
    /\ settingsLoading /\ loadReply = Waiting
    /\ loadReply' \in {stored, Lost}
    /\ UNCHANGED <<stored, form, typedKey, configured, settingsLoading, settingsSave, saveReply,
                   barkTests, exports, loadError, edits>>
SettingsAnswer ==
    /\ loadReply # Waiting /\ loadReply' = Waiting
    /\ settingsLoading' = FALSE
    /\ IF loadReply = Lost
       THEN loadError' = TRUE /\ UNCHANGED <<form, typedKey, configured>>
       ELSE Accept(loadReply) /\ UNCHANGED loadError
    /\ UNCHANGED <<stored, settingsSave, saveReply, barkTests, exports, edits>>

\* The fields can be typed into while the form is being saved.
UpdateField ==
    /\ Edit /\ FormShown
    /\ \E v \in Held \ {"unset"}, b \in BOOLEAN : form' = [value |-> v, bark |-> b]
    /\ UNCHANGED <<stored, typedKey, configured, settingsCalls, barkTests, exports, loadError>>
\* The fields of the secrets: the private key, the password of the mail, the device key.
TypeSecret ==
    /\ Edit /\ FormShown
    /\ typedKey' \in DeviceKeys
    /\ UNCHANGED <<stored, form, configured, settingsCalls, barkTests, exports, loadError>>

\* save: the checks of the form, and the patch with the secrets that were typed.
CompleteWithoutKey == form.value # "invalid"
Complete == /\ form.value # "invalid"
            /\ form.bark => typedKey # NoKey \/ configured
SaveSettings ==
    /\ Edit /\ FormShown
    /\ settingsSave = NoSave /\ Complete
    /\ settingsSave' = [value |-> form.value, bark |-> form.bark, key |-> typedKey]
    /\ UNCHANGED <<stored, form, typedKey, configured, settingsLoading, loadReply, saveReply,
                   barkTests, exports, loadError>>
\* The server keeps what the patch does not name.
Merge(s, p) == [s EXCEPT !.value = p.value, !.bark = p.bark,
                         !.key = IF p.key = NoKey THEN s.key ELSE p.key]
\* Update: all of the patch in one transaction, or nothing of it.
ServeSave ==
    /\ settingsSave # NoSave /\ saveReply = Waiting
    /\ \/ stored' = Merge(stored, settingsSave) /\ saveReply' \in {stored', Lost}
       \/ saveReply' = Lost /\ UNCHANGED stored
    /\ UNCHANGED <<form, typedKey, configured, settingsLoading, loadReply, settingsSave,
                   barkTests, exports, loadError, edits>>
SettingsSaved ==
    /\ saveReply # Waiting /\ saveReply' = Waiting
    /\ settingsSave' = NoSave
    /\ IF saveReply = Lost THEN UNCHANGED <<form, typedKey, configured>> ELSE Accept(saveReply)
    /\ UNCHANGED <<stored, settingsLoading, loadReply, barkTests, exports, loadError, edits>>
\* Another administrator stores settings from a form of his own.
OtherSaves ==
    /\ Edit
    /\ \E v \in {"default", "other"}, b \in BOOLEAN, h \in {"kept", "changed"} :
           /\ b => stored.key # NoKey
           /\ stored' = [stored EXCEPT !.value = v, !.bark = b, !.hidden = h]
    /\ UNCHANGED <<form, typedKey, configured, settingsCalls, barkTests, exports, loadError>>

\* testBark and exportData, each behind its own flag; neither changes anything.
TestBark ==
    /\ Edit /\ FormShown /\ ~barkTests /\ configured
    /\ barkTests' = TRUE
    /\ UNCHANGED <<stored, form, typedKey, configured, settingsCalls, exports, loadError>>
Export ==
    /\ Edit /\ ~exports
    /\ exports' = TRUE
    /\ UNCHANGED <<stored, form, typedKey, configured, settingsCalls, barkTests, loadError>>
ToolAnswer ==
    /\ \/ barkTests /\ barkTests' = FALSE /\ UNCHANGED exports
       \/ exports /\ exports' = FALSE /\ UNCHANGED barkTests
    /\ UNCHANGED <<stored, form, typedKey, configured, settingsCalls, loadError, edits>>

SettingsNext ==
    \/ Reload \/ ServeLoad \/ SettingsAnswer
    \/ UpdateField \/ TypeSecret \/ SaveSettings \/ ServeSave \/ SettingsSaved
    \/ OtherSaves \/ TestBark \/ Export \/ ToolAnswer

-----------------------------------------------------------------------------
SettingsTypeOK ==
    /\ stored.value \in Held /\ stored.key \in DeviceKeys \union {NoKey}
    /\ form \in [value : Held \ {"unset"}, bark : BOOLEAN]
    /\ typedKey \in DeviceKeys \union {NoKey} /\ configured \in BOOLEAN
    /\ settingsLoading \in BOOLEAN /\ edits \in 0..MaxEdits

\* However loads, edits, saves and other administrators interleave, Bark is never
\* stored as enabled without a device key, a stored key is never lost to a form that
\* left it empty, and what the server does with a form changes nothing it does not show.
SecretsKept ==
    [][ /\ stored'.bark => stored'.key # NoKey
        /\ stored.key # NoKey => stored'.key # NoKey
        /\ saveReply = Waiting /\ saveReply' # Waiting =>
               stored'.hidden = stored.hidden ]_settingsVars
=============================================================================
