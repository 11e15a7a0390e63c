----------------------------- MODULE MainWindow -----------------------------
(***************************************************************************)
(* The main window (class MainWindow): the hosts it shows, the tabs it     *)
(* opens for them, and the stores behind both.  A handler that asks the    *)
(* user runs a nested event loop: the dialog is a state between the two    *)
(* halves of the handler, and sessions of other tabs report meanwhile.     *)
(***************************************************************************)
EXTENDS Integers, Sequences, SequencesExt

CONSTANTS
    Hosts,    \* identifiers of profiles
    Keys,     \* fingerprints that servers present
    MaxTabs   \* bound: tabs open at once

VARIABLES
    store,        \* rows of the table profiles
    profiles,     \* m_profiles, which the session tree shows
    cards,        \* what the cards of m_home show: the profile and the OS
    icons,        \* settings hostos/<id>
    credentials,  \* secrets in m_credentialStore
    known,        \* rows of the table known_hosts
    tabs,         \* m_sessionTabs
    current,      \* index of the current tab
    hexChecked,   \* m_hexViewAct
    dialog        \* the modal dialog that is open, with what its handler holds

storeVars == <<store, credentials, known, icons>>
listVars == <<profiles, cards>>
tabVars == <<tabs, current, hexChecked>>
windowVars == <<storeVars, listVars, tabVars, dialog>>

NoDialog == [asks |-> "nothing"]
NoRows == [h \in {} |-> 0]
Unknown == "unknown"

\* What the models tell apart of a profile: the protocol, which is a terminal's
\* over SSH, a plain terminal's that has no password (Telnet, 3270, 5250, serial)
\* or a file transfer's, and whether the password is saved.
Profiles == [kind : {"terminal", "plain", "files"}, savePassword : BOOLEAN]

\* What the OS of a file transfer's host is detected as.
Systems == {"linux", "windows"}

With(f, h, x) == [g \in DOMAIN f \union {h} |-> IF g = h THEN x ELSE f[g]]
Without(f, h) == [g \in DOMAIN f \ {h} |-> f[g]]

HomeTab == [kind |-> "home", host |-> Unknown, hex |-> FALSE]
SessionTab(kind, h) == [kind |-> kind, host |-> h, hex |-> FALSE]
IsTerminal(tab) == tab.kind \in {"terminal", "plain"}

\* setProfiles(): a card per profile, drawn with the OS that was remembered.
CardsOf(rows, os) == [h \in DOMAIN rows |-> [profile |-> rows[h], os |-> os[h]]]

Init ==
    /\ store = NoRows /\ profiles = NoRows /\ cards = NoRows /\ credentials = {}
    /\ icons = [h \in Hosts |-> Unknown]
    /\ known = [h \in Hosts |-> Unknown]
    /\ tabs = <<HomeTab>> /\ current = 1 /\ hexChecked = FALSE
    /\ dialog = NoDialog

Idle == dialog = NoDialog
Ask(what, h) == dialog' = [asks |-> what, host |-> h]
Closed == dialog' = NoDialog

LoadProfilesIntoTree == profiles' = store' /\ cards' = CardsOf(store', icons)

\* syncHexViewAction(), on every change of the current tab.
SyncHexViewAction_Missed == UNCHANGED hexChecked
SyncHexViewAction == hexChecked' = (IsTerminal(tabs'[current']) /\ tabs'[current'].hex)

AddTab(tab) ==
    /\ Len(tabs) < MaxTabs
    /\ tabs' = Append(tabs, tab) /\ current' = Len(tabs) + 1
    /\ SyncHexViewAction

-----------------------------------------------------------------------------
(* Opening sessions. *)

\* connectProfile(), connectProfileSftp(): a password that is not in the
\* credential store is asked for.
NeedsPassword(kind, h) == kind # "plain" /\ ~(profiles[h].savePassword /\ h \in credentials)

StartSession(kind, h) == AddTab(SessionTab(kind, h))

Connect(h, files) ==
    /\ Idle /\ h \in DOMAIN profiles
    /\ LET kind == IF files THEN "files" ELSE profiles[h].kind
       IN  IF NeedsPassword(kind, h)
           THEN /\ dialog' = [asks |-> "password", host |-> h, kind |-> kind]
                /\ UNCHANGED tabVars
           ELSE StartSession(kind, h) /\ UNCHANGED dialog
    /\ UNCHANGED <<storeVars, listVars>>

PasswordGiven ==
    /\ dialog.asks = "password"
    /\ \/ StartSession(dialog.kind, dialog.host)
       \/ UNCHANGED tabVars  \* the user cancels
    /\ Closed /\ UNCHANGED <<storeVars, listVars>>

\* quickConnectFromText(): a host that is not saved.
QuickConnectFromText ==
    /\ Idle /\ StartSession("terminal", Unknown)
    /\ UNCHANGED <<storeVars, listVars, dialog>>

OpenLocalShell ==
    /\ Idle /\ AddTab(SessionTab("plain", Unknown))
    /\ UNCHANGED <<storeVars, listVars, dialog>>

-----------------------------------------------------------------------------
(* Editing hosts.  The store may refuse a row. *)

OpenQuickConnect == Idle /\ Ask("connect", Unknown) /\ UNCHANGED <<storeVars, listVars, tabVars>>
EditHost(h) == Idle /\ h \in DOMAIN cards /\ Ask("edit", h)
               /\ UNCHANGED <<storeVars, listVars, tabVars>>
DeleteHost(h) == Idle /\ h \in DOMAIN cards /\ Ask("delete", h)
               /\ UNCHANGED <<storeVars, listVars, tabVars>>

\* The profile behind the current tab, or the one selected in the tree.
OpenSessionOptions ==
    /\ Idle
    /\ LET h == tabs[current].host
       IN  \E g \in DOMAIN profiles : (h # Unknown => g = h) /\ Ask("options", g)
    /\ UNCHANGED <<storeVars, listVars, tabVars>>

\* Upsert, the password, and the lists, in this order.
SaveHost(h, profile, storePassword) ==
    \/ /\ store' = With(store, h, profile)
       /\ credentials' = IF storePassword THEN credentials \union {h} ELSE credentials
       /\ LoadProfilesIntoTree
    \/ UNCHANGED <<store, credentials, listVars>>  \* refused

QuickConnectAccepted ==
    /\ dialog.asks = "connect"
    /\ \E profile \in Profiles, h \in Hosts \ DOMAIN store, save \in BOOLEAN :
          /\ profile.savePassword => save
          /\ IF save THEN SaveHost(h, profile, profile.savePassword)
             ELSE UNCHANGED <<store, credentials, listVars>>
          /\ StartSession(profile.kind, h)
    /\ Closed /\ UNCHANGED <<known, icons>>

EditAccepted ==
    /\ dialog.asks \in {"edit", "options"}
    /\ \E profile \in Profiles, changed \in BOOLEAN :
          SaveHost(dialog.host, profile,
                   profile.savePassword /\ (dialog.asks = "options" => changed))
    /\ Closed /\ UNCHANGED <<known, icons, tabVars>>

Removed_KeepsPassword(h) == credentials
Removed(h) == credentials \ {h}

DeleteConfirmed ==
    /\ dialog.asks = "delete"
    /\ store' = Without(store, dialog.host) /\ credentials' = Removed(dialog.host)
    /\ LoadProfilesIntoTree
    /\ Closed /\ UNCHANGED <<known, icons, tabVars>>

Cancelled ==
    /\ dialog.asks \in {"connect", "edit", "options", "delete"}
    /\ Closed /\ UNCHANGED <<storeVars, listVars, tabVars>>

\* Every profile of a file, of this store's or of another one's hosts, that the
\* store does not refuse is written over what the store has of it.
ImportSettings ==
    /\ Idle
    /\ \E taken \in SUBSET Hosts : \E file \in [taken -> Profiles] :
          store' = [h \in DOMAIN store \union taken |-> IF h \in taken THEN file[h] ELSE store[h]]
    /\ LoadProfilesIntoTree
    /\ UNCHANGED <<credentials, known, icons, tabVars, dialog>>

-----------------------------------------------------------------------------
(* Sessions of open tabs report, also while a dialog is open. *)

\* verifyHostKey(): an unknown key is remembered, a changed one is asked about.
VerifyHostKey(tab, key) ==
    /\ tab.host # Unknown /\ tab.kind # "plain"
    /\ \/ known[tab.host] = Unknown /\ known' = [known EXCEPT ![tab.host] = key]
       \/ known[tab.host] # Unknown /\ known' \in {known, [known EXCEPT ![tab.host] = key]}
    /\ UNCHANGED <<store, credentials, icons, listVars, tabVars, dialog>>

RememberHostOs(tab) ==
    /\ tab.kind = "files" /\ tab.host # Unknown
    /\ \E os \in Systems \ {icons[tab.host]} : icons' = [icons EXCEPT ![tab.host] = os]
    /\ cards' = CardsOf(profiles, icons')
    /\ UNCHANGED <<store, credentials, known, profiles, tabVars, dialog>>

-----------------------------------------------------------------------------
(* Tabs. *)

SelectTab(i) ==
    /\ Idle /\ current' = i /\ i # current
    /\ UNCHANGED tabs /\ SyncHexViewAction
    /\ UNCHANGED <<storeVars, listVars, dialog>>

\* The tab that is current after the i-th of them was removed.
CurrentWithout(i) ==
    IF i < current \/ current = Len(tabs) THEN current - 1 ELSE current

CloseTab(i) ==
    /\ Idle /\ tabs[i].kind # "home"
    /\ tabs' = RemoveAt(tabs, i) /\ current' = CurrentWithout(i)
    /\ SyncHexViewAction
    /\ UNCHANGED <<storeVars, listVars, dialog>>

MoveTab(i, j) ==
    /\ Idle /\ i # j
    /\ tabs' = InsertAt(RemoveAt(tabs, i), j, tabs[i])
    /\ current' = CHOOSE k \in DOMAIN tabs :
          \/ i = current /\ k = j
          \/ i # current /\ k = LET c == IF i < current THEN current - 1 ELSE current
                                IN  IF j <= c THEN c + 1 ELSE c
    /\ UNCHANGED <<hexChecked, storeVars, listVars, dialog>>

\* A new tab for the same session at the end; Reconnect then drops the old one.
Respawn(replaces) ==
    /\ Idle /\ IsTerminal(tabs[current])
    /\ LET added == Append(tabs, [tabs[current] EXCEPT !.hex = FALSE])
       IN  /\ Len(added) <= MaxTabs + (IF replaces THEN 1 ELSE 0)
           /\ tabs' = IF replaces THEN RemoveAt(added, current) ELSE added
           /\ current' = Len(tabs')
    /\ SyncHexViewAction
    /\ UNCHANGED <<storeVars, listVars, dialog>>

SetHexViewForCurrent(on) ==
    /\ Idle /\ IsTerminal(tabs[current]) /\ hexChecked' = on
    /\ tabs' = [tabs EXCEPT ![current].hex = on]
    /\ UNCHANGED <<current, storeVars, listVars, dialog>>

-----------------------------------------------------------------------------

Next ==
    \/ \E h \in Hosts : (\E files \in BOOLEAN : Connect(h, files)) \/ EditHost(h) \/ DeleteHost(h)
    \/ PasswordGiven \/ QuickConnectFromText \/ OpenLocalShell
    \/ OpenQuickConnect \/ OpenSessionOptions
    \/ QuickConnectAccepted \/ EditAccepted \/ DeleteConfirmed \/ Cancelled
    \/ ImportSettings
    \/ \E i \in DOMAIN tabs :
          \/ RememberHostOs(tabs[i]) \/ (\E key \in Keys : VerifyHostKey(tabs[i], key))
          \/ SelectTab(i) \/ CloseTab(i) \/ (\E j \in DOMAIN tabs : MoveTab(i, j))
    \/ \E replaces \in BOOLEAN : Respawn(replaces)
    \/ \E on \in BOOLEAN : SetHexViewForCurrent(on)

Spec == Init /\ [][Next]_windowVars

-----------------------------------------------------------------------------
(* Properties. *)

ListsShown == profiles = store /\ cards = CardsOf(store, icons)

\* A secret is kept only for a host that is in the store.
SecretsOwned == credentials \subseteq DOMAIN store

\* The lists show the hosts of the store and what is known of them, and no
\* secret outlives its host, whatever handler changed either and whatever a
\* session reported while it asked the user.
HostsShown == ListsShown /\ SecretsOwned

MenuShown == hexChecked = (IsTerminal(tabs[current]) /\ tabs[current].hex)

\* There is one home tab.
HomeStays == Cardinality({i \in DOMAIN tabs : tabs[i].kind = "home"}) = 1

\* A tab is always current, one of them is the home tab, and the menu's check
\* is that of the current terminal, through every opening, closing, moving and
\* replacing of tabs.
HexShown == current \in DOMAIN tabs /\ HomeStays /\ MenuShown
=============================================================================
