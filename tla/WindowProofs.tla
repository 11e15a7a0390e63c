---------------------------- MODULE WindowProofs ----------------------------
(***************************************************************************)
(* Proofs about the windows.  Of the main window, for any hosts, keys and  *)
(* number of tabs: its lists show the store, no secret outlives its host,  *)
(* and the menu shows the view of the current tab.  Of the list of         *)
(* transfers, for any sessions and any number of transfers and rows: each  *)
(* transfer keeps a row of its own, through the rows that are removed      *)
(* above it.  Of the browser of remote files, for any number of copies and *)
(* transfers: a copy is handed over when all of it has been tried.  Of the *)
(* panes, for any names and number of bookmarks and of listings under way: *)
(* they do not send each other back and forth.                             *)
(***************************************************************************)
EXTENDS MCWindows, SequenceTheorems, FiniteSetTheorems, TLAPS

-----------------------------------------------------------------------------
(* Taking a tab out of their sequence, and putting one in. *)

Kinds == {"terminal", "plain", "files"}
Tabs == [kind : Kinds \union {"home"}, host : Hosts \union {Unknown}, hex : BOOLEAN]

LEMMA RemoveAtIs ==
    ASSUME NEW s \in Seq(Tabs), NEW i \in 1 .. Len(s)
    PROVE  /\ RemoveAt(s, i) \in Seq(Tabs)
           /\ Len(RemoveAt(s, i)) = Len(s) - 1
           /\ \A k \in 1 .. Len(s) - 1 : RemoveAt(s, i)[k] = IF k < i THEN s[k] ELSE s[k + 1]
<1> DEFINE a == SubSeq(s, 1, i - 1)
           b == SubSeq(s, i + 1, Len(s))
<1>0. Len(s) \in Nat /\ i \in Nat /\ 1 <= i /\ i <= Len(s) OBVIOUS
<1>1. /\ a \in Seq(Tabs) /\ Len(a) = i - 1
      /\ \A k \in 1 .. i - 1 : a[k] = s[k]
  <2>1. \A k \in 1 .. i - 1 : s[k] \in Tabs BY <1>0
  <2>2. Len(a) = i - 1 /\ \A k \in 1 .. i - 1 : a[k] = s[k] BY <1>0, SubSeqProperties
  <2>3. a \in Seq(Tabs) BY <1>0, <2>1, SubSeqProperties
  <2> QED BY <2>2, <2>3
<1>2. /\ b \in Seq(Tabs) /\ Len(b) = Len(s) - i
      /\ \A k \in 1 .. Len(s) - i : b[k] = s[i + k]
  <2>1. \A k \in i + 1 .. Len(s) : s[k] \in Tabs BY <1>0
  <2>2. Len(b) = Len(s) - i /\ \A k \in 1 .. Len(s) - i : b[k] = s[i + k]
    BY <1>0, SubSeqProperties
  <2>3. b \in Seq(Tabs) BY <1>0, <2>1, SubSeqProperties
  <2> QED BY <2>2, <2>3
<1>3. RemoveAt(s, i) = a \o b BY DEF RemoveAt
<1> HIDE DEF a, b
<1>4. /\ a \o b \in Seq(Tabs) /\ Len(a \o b) = Len(a) + Len(b)
      /\ \A k \in 1 .. Len(a) + Len(b) :
            (a \o b)[k] = IF k <= Len(a) THEN a[k] ELSE b[k - Len(a)]
  BY <1>1, <1>2, ConcatProperties
<1> QED BY <1>0, <1>1, <1>2, <1>3, <1>4

LEMMA InsertAtIs ==
    ASSUME NEW s \in Seq(Tabs), NEW i \in 1 .. Len(s) + 1, NEW e \in Tabs
    PROVE  /\ InsertAt(s, i, e) \in Seq(Tabs)
           /\ Len(InsertAt(s, i, e)) = Len(s) + 1
           /\ \A k \in 1 .. i - 1 : InsertAt(s, i, e)[k] = s[k]
           /\ InsertAt(s, i, e)[i] = e
           /\ \A k \in i + 1 .. Len(s) + 1 : InsertAt(s, i, e)[k] = s[k - 1]
<1> DEFINE a == SubSeq(s, 1, i - 1)
           b == SubSeq(s, i, Len(s))
           c == a \o <<e>>
<1>0. Len(s) \in Nat /\ i \in Nat /\ 1 <= i /\ i <= Len(s) + 1 OBVIOUS
<1>1. /\ a \in Seq(Tabs) /\ Len(a) = i - 1
      /\ \A k \in 1 .. i - 1 : a[k] = s[k]
  <2>1. \A k \in 1 .. i - 1 : s[k] \in Tabs BY <1>0
  <2>2. Len(a) = i - 1 /\ \A k \in 1 .. i - 1 : a[k] = s[k] BY <1>0, SubSeqProperties
  <2>3. a \in Seq(Tabs) BY <1>0, <2>1, SubSeqProperties
  <2> QED BY <2>2, <2>3
<1>2. /\ b \in Seq(Tabs) /\ Len(b) = Len(s) - i + 1
      /\ \A k \in 1 .. Len(s) - i + 1 : b[k] = s[i + k - 1]
  <2>1. \A k \in i .. Len(s) : s[k] \in Tabs BY <1>0
  <2>2. Len(b) = Len(s) - i + 1 /\ \A k \in 1 .. Len(s) - i + 1 : b[k] = s[i + k - 1]
    BY <1>0, SubSeqProperties
  <2>3. b \in Seq(Tabs) BY <1>0, <2>1, SubSeqProperties
  <2> QED BY <2>2, <2>3
<1>3. InsertAt(s, i, e) = c \o b BY DEF InsertAt
<1> HIDE DEF a, b
<1>4. /\ c \in Seq(Tabs) /\ Len(c) = i
      /\ \A k \in 1 .. i - 1 : c[k] = a[k]
      /\ c[i] = e
  <2> DEFINE w == <<e>>
  <2>1. w \in Seq(Tabs) /\ Len(w) = 1 /\ w[1] = e OBVIOUS
  <2>2. c = a \o w OBVIOUS
  <2> HIDE DEF w, c
  <2>3. /\ a \o w \in Seq(Tabs) /\ Len(a \o w) = Len(a) + Len(w)
        /\ \A k \in 1 .. Len(a) : (a \o w)[k] = a[k]
        /\ \A k \in Len(a) + 1 .. Len(a) + Len(w) : (a \o w)[k] = w[k - Len(a)]
    <3>1. a \in Seq(Tabs) /\ w \in Seq(Tabs) BY <1>1, <2>1
    <3> QED BY ONLY <3>1, ConcatProperties
  <2> QED BY <1>0, <1>1, <2>1, <2>2, <2>3
<1> HIDE DEF c
<1>5. /\ c \o b \in Seq(Tabs) /\ Len(c \o b) = Len(c) + Len(b)
      /\ \A k \in 1 .. Len(c) : (c \o b)[k] = c[k]
      /\ \A k \in Len(c) + 1 .. Len(c) + Len(b) : (c \o b)[k] = b[k - Len(c)]
  BY <1>2, <1>4, ConcatProperties
<1> DEFINE r == InsertAt(s, i, e)
<1>6. /\ r \in Seq(Tabs) /\ Len(r) = Len(s) + 1 /\ \A k \in 1 .. i : r[k] = c[k]
      /\ \A k \in i + 1 .. Len(s) + 1 : r[k] = b[k - i]
  BY <1>0, <1>2, <1>3, <1>4, <1>5
<1> HIDE DEF r
<1>7. \A k \in 1 .. i - 1 : r[k] = s[k] BY <1>0, <1>1, <1>4, <1>6
<1>8. r[i] = e BY <1>0, <1>4, <1>6
<1>9. \A k \in i + 1 .. Len(s) + 1 : r[k] = s[k - 1]
  <2> SUFFICES ASSUME NEW k \in i + 1 .. Len(s) + 1 PROVE r[k] = s[k - 1] OBVIOUS
  <2>1. k - i \in 1 .. Len(s) - i + 1 /\ i + (k - i) - 1 = k - 1 BY <1>0
  <2> QED BY <1>2, <1>6, <2>1
<1> QED BY <1>6, <1>7, <1>8, <1>9 DEF r

-----------------------------------------------------------------------------
(* The lists and the stores.  HostsShown is inductive, both halves together. *)

ListInv == ListsShown /\ SecretsOwned

LEMMA ListInit == Init => ListInv
BY DEF Init, ListInv, ListsShown, SecretsOwned, CardsOf, NoRows

\* A host is saved or refused, in the lists as in the store.
LEMMA SaveKeeps ==
    ASSUME ListInv, NEW h, NEW profile, NEW storePassword \in BOOLEAN,
           SaveHost(h, profile, storePassword), UNCHANGED icons
    PROVE  ListInv'
<1>1. CASE /\ store' = With(store, h, profile)
           /\ credentials' = IF storePassword THEN credentials \union {h} ELSE credentials
           /\ LoadProfilesIntoTree
  <2>1. ListsShown' BY <1>1 DEF LoadProfilesIntoTree, ListsShown, CardsOf
  <2>2. DOMAIN store' = DOMAIN store \union {h} BY <1>1 DEF With
  <2>3. SecretsOwned' BY <1>1, <2>2 DEF ListInv, SecretsOwned
  <2> QED BY <2>1, <2>3 DEF ListInv
<1>2. CASE UNCHANGED <<store, credentials, listVars>>
  BY <1>2 DEF ListInv, ListsShown, SecretsOwned, CardsOf, listVars
<1> QED BY <1>1, <1>2 DEF SaveHost

LEMMA ListStep == ListInv /\ [Next]_windowVars => ListInv'
<1> SUFFICES ASSUME ListInv, [Next]_windowVars PROVE ListInv' OBVIOUS
<1>1. ASSUME UNCHANGED <<store, credentials, icons, listVars>> PROVE ListInv'
  BY <1>1 DEF ListInv, ListsShown, SecretsOwned, CardsOf, listVars
<1>2. CASE QuickConnectAccepted
  <2>1. PICK profile \in Profiles, h \in Hosts \ DOMAIN store, save \in BOOLEAN :
           IF save THEN SaveHost(h, profile, profile.savePassword)
           ELSE UNCHANGED <<store, credentials, listVars>>
    BY <1>2 DEF QuickConnectAccepted
  <2>2. UNCHANGED icons BY <1>2 DEF QuickConnectAccepted
  <2>3. profile.savePassword \in BOOLEAN BY DEF Profiles
  <2>4. CASE save BY <2>1, <2>2, <2>3, <2>4, SaveKeeps
  <2>5. CASE ~save BY <2>1, <2>2, <2>5, <1>1
  <2> QED BY <2>4, <2>5
<1>3. CASE EditAccepted
  <2>1. PICK profile \in Profiles, changed \in BOOLEAN :
           SaveHost(dialog.host, profile,
                    profile.savePassword /\ (dialog.asks = "options" => changed))
    BY <1>3 DEF EditAccepted
  <2>2. UNCHANGED icons BY <1>3 DEF EditAccepted
  <2>3. (profile.savePassword /\ (dialog.asks = "options" => changed)) \in BOOLEAN
    OBVIOUS
  <2> QED BY <2>1, <2>2, <2>3, SaveKeeps
<1>4. CASE DeleteConfirmed
  <2>1. ListsShown' BY <1>4 DEF DeleteConfirmed, LoadProfilesIntoTree, ListsShown, CardsOf
  <2>2. DOMAIN store' = DOMAIN store \ {dialog.host} BY <1>4 DEF DeleteConfirmed, Without
  <2>3. SecretsOwned' BY <1>4, <2>2 DEF DeleteConfirmed, Removed, ListInv, SecretsOwned
  <2> QED BY <2>1, <2>3 DEF ListInv
<1>5. CASE ImportSettings
  <2>1. ListsShown' BY <1>5 DEF ImportSettings, LoadProfilesIntoTree, ListsShown, CardsOf
  <2>2. DOMAIN store \subseteq DOMAIN store' BY <1>5 DEF ImportSettings
  <2>3. SecretsOwned' BY <1>5, <2>2 DEF ImportSettings, ListInv, SecretsOwned
  <2> QED BY <2>1, <2>3 DEF ListInv
<1>6. ASSUME NEW tab, RememberHostOs(tab) PROVE ListInv'
  <2>1. UNCHANGED <<store, credentials, profiles>> /\ cards' = CardsOf(profiles, icons')
    BY <1>6 DEF RememberHostOs
  <2>2. ListsShown' BY <2>1 DEF ListInv, ListsShown, CardsOf
  <2> QED BY <2>1, <2>2 DEF ListInv, SecretsOwned
<1>7. CASE \/ \E h \in Hosts : (\E asFiles \in BOOLEAN : Connect(h, asFiles)) \/ EditHost(h)
                               \/ DeleteHost(h)
           \/ PasswordGiven \/ QuickConnectFromText \/ OpenLocalShell \/ OpenQuickConnect
           \/ OpenSessionOptions \/ Cancelled
  BY <1>1, <1>7 DEF Connect, EditHost, DeleteHost, PasswordGiven, QuickConnectFromText,
                    OpenLocalShell, OpenQuickConnect, OpenSessionOptions, Cancelled, storeVars
<1>8. ASSUME NEW i \in DOMAIN tabs,
             \/ \E key \in Keys : VerifyHostKey(tabs[i], key)
             \/ SelectTab(i) \/ CloseTab(i) \/ (\E j \in DOMAIN tabs : MoveTab(i, j))
      PROVE  ListInv'
  BY <1>1, <1>8 DEF VerifyHostKey, SelectTab, CloseTab, MoveTab, storeVars
<1>9. CASE \/ \E replaces \in BOOLEAN : Respawn(replaces)
           \/ \E on \in BOOLEAN : SetHexViewForCurrent(on)
           \/ UNCHANGED windowVars
  BY <1>1, <1>9 DEF Respawn, SetHexViewForCurrent, storeVars, windowVars
<1> QED BY <1>2, <1>3, <1>4, <1>5, <1>6, <1>7, <1>8, <1>9 DEF Next

-----------------------------------------------------------------------------

\* The lists show the hosts of the store and what is known of them, and no
\* secret outlives its host.
THEOREM ListsTrue == Spec => []HostsShown
<1>1. ListInv => HostsShown BY DEF ListInv, HostsShown
<1> QED BY <1>1, ListInit, ListStep, PTL DEF Spec

-----------------------------------------------------------------------------
(* The tabs.  What a session tab is depends on the profiles, and on what    *)
(* the password dialog holds.                                               *)

AreProfiles(hosts) == \A h \in DOMAIN hosts : hosts[h] \in Profiles

RowInv ==
    /\ AreProfiles(store) /\ AreProfiles(profiles)
    /\ dialog.asks = "password" => dialog.kind \in Kinds /\ dialog.host \in Hosts

OneHome == \E i \in 1 .. Len(tabs) : \A j \in 1 .. Len(tabs) : tabs[j].kind = "home" <=> j = i

TabInv == tabs \in Seq(Tabs) /\ current \in 1 .. Len(tabs) /\ OneHome /\ MenuShown

LEMMA WindowInit == Init => RowInv /\ TabInv
<1> SUFFICES ASSUME Init PROVE RowInv /\ TabInv OBVIOUS
<1>1. RowInv BY DEF Init, RowInv, AreProfiles, NoRows, NoDialog
<1>2. HomeTab \in Tabs /\ ~IsTerminal(HomeTab) /\ HomeTab.kind = "home"
  BY DEF HomeTab, Tabs, IsTerminal
<1>3. /\ tabs \in Seq(Tabs) /\ Len(tabs) = 1 /\ tabs[1] = HomeTab /\ current = 1
      /\ hexChecked = FALSE
  BY <1>2 DEF Init
<1>4. OneHome BY <1>2, <1>3 DEF OneHome
<1>5. MenuShown BY <1>2, <1>3 DEF MenuShown
<1> QED BY <1>1, <1>3, <1>4, <1>5 DEF TabInv

LEMMA SaveKeepsRows ==
    ASSUME RowInv, NEW h, NEW profile \in Profiles, NEW storePassword,
           SaveHost(h, profile, storePassword)
    PROVE  AreProfiles(store)' /\ AreProfiles(profiles)'
BY DEF SaveHost, LoadProfilesIntoTree, With, RowInv, AreProfiles, listVars

LEMMA RowStep == RowInv /\ [Next]_windowVars => RowInv'
<1> SUFFICES ASSUME RowInv, [Next]_windowVars PROVE RowInv' OBVIOUS
<1> USE DEF RowInv
<1>1. ASSUME UNCHANGED <<store, profiles>>,
             UNCHANGED dialog \/ dialog'.asks # "password"
      PROVE  RowInv'
  BY <1>1 DEF AreProfiles
<1>2. ASSUME Closed PROVE dialog'.asks # "password" BY <1>2 DEF Closed, NoDialog
<1>3. ASSUME NEW h, NEW what \in {"connect", "edit", "options", "delete"}, Ask(what, h)
      PROVE  dialog'.asks # "password"
  BY <1>3 DEF Ask
<1>4. ASSUME NEW h \in Hosts, NEW asFiles \in BOOLEAN, Connect(h, asFiles) PROVE RowInv'
  <2> DEFINE kind == IF asFiles THEN "files" ELSE profiles[h].kind
  <2>1. kind \in Kinds BY <1>4 DEF Connect, AreProfiles, Profiles, Kinds
  <2>2. UNCHANGED <<store, profiles>>
        /\ (dialog' = [asks |-> "password", host |-> h, kind |-> kind] \/ UNCHANGED dialog)
    BY <1>4 DEF Connect, storeVars, listVars
  <2> HIDE DEF kind
  <2>3. dialog'.asks = "password" => dialog'.kind \in Kinds /\ dialog'.host \in Hosts
    BY <2>1, <2>2
  <2> QED BY <2>2, <2>3 DEF AreProfiles
<1>5. CASE QuickConnectAccepted
  <2>1. PICK profile \in Profiles, h \in Hosts \ DOMAIN store, save \in BOOLEAN :
           IF save THEN SaveHost(h, profile, profile.savePassword)
           ELSE UNCHANGED <<store, credentials, listVars>>
    BY <1>5 DEF QuickConnectAccepted
  <2>2. AreProfiles(store)' /\ AreProfiles(profiles)'
    BY <2>1, SaveKeepsRows DEF listVars, AreProfiles
  <2>3. dialog'.asks # "password" BY <1>2, <1>5 DEF QuickConnectAccepted
  <2> QED BY <2>2, <2>3 DEF AreProfiles
<1>6. CASE EditAccepted
  <2>1. PICK profile \in Profiles, changed \in BOOLEAN :
           SaveHost(dialog.host, profile,
                    profile.savePassword /\ (dialog.asks = "options" => changed))
    BY <1>6 DEF EditAccepted
  <2>2. AreProfiles(store)' /\ AreProfiles(profiles)' BY <2>1, SaveKeepsRows
  <2>3. dialog'.asks # "password" BY <1>2, <1>6 DEF EditAccepted
  <2> QED BY <2>2, <2>3 DEF AreProfiles
<1>7. CASE DeleteConfirmed
  <2>1. AreProfiles(store)' BY <1>7 DEF DeleteConfirmed, Without, AreProfiles
  <2>2. profiles' = store' BY <1>7 DEF DeleteConfirmed, LoadProfilesIntoTree
  <2>3. dialog'.asks # "password" BY <1>2, <1>7 DEF DeleteConfirmed
  <2> QED BY <2>1, <2>2, <2>3 DEF AreProfiles
<1>8. CASE ImportSettings
  <2>1. AreProfiles(store)' BY <1>8 DEF ImportSettings, AreProfiles
  <2>2. profiles' = store' /\ UNCHANGED dialog
    BY <1>8 DEF ImportSettings, LoadProfilesIntoTree
  <2> QED BY <2>1, <2>2 DEF AreProfiles
<1>10. CASE PasswordGiven \/ Cancelled
  BY <1>1, <1>2, <1>10 DEF PasswordGiven, Cancelled, storeVars, listVars
<1>11. CASE \/ \E h \in Hosts : EditHost(h) \/ DeleteHost(h)
            \/ OpenQuickConnect \/ OpenSessionOptions
  BY <1>1, <1>3, <1>11 DEF EditHost, DeleteHost, OpenQuickConnect, OpenSessionOptions, storeVars,
                           listVars
<1>12. CASE \/ QuickConnectFromText \/ OpenLocalShell
            \/ \E i \in DOMAIN tabs :
                  \/ RememberHostOs(tabs[i]) \/ (\E key \in Keys : VerifyHostKey(tabs[i], key))
                  \/ SelectTab(i) \/ CloseTab(i) \/ (\E j \in DOMAIN tabs : MoveTab(i, j))
            \/ \E replaces \in BOOLEAN : Respawn(replaces)
            \/ \E on \in BOOLEAN : SetHexViewForCurrent(on)
            \/ UNCHANGED windowVars
  BY <1>1, <1>12 DEF QuickConnectFromText, OpenLocalShell, RememberHostOs, VerifyHostKey,
                     SelectTab, CloseTab, MoveTab, Respawn, SetHexViewForCurrent, storeVars,
                     listVars, windowVars
<1> QED BY <1>4, <1>5, <1>6, <1>7, <1>8, <1>10, <1>11, <1>12 DEF Next

-----------------------------------------------------------------------------

LEMMA AddKeeps ==
    ASSUME TabInv, NEW tab \in Tabs, tab.kind # "home", AddTab(tab) PROVE TabInv'
<1>1. /\ tabs' = Append(tabs, tab) /\ current' = Len(tabs) + 1 /\ tabs \in Seq(Tabs)
      /\ hexChecked' = (IsTerminal(tabs'[current']) /\ tabs'[current'].hex)
  BY DEF AddTab, SyncHexViewAction, TabInv
<1>2. /\ tabs' \in Seq(Tabs) /\ Len(tabs') = Len(tabs) + 1 /\ Len(tabs) \in Nat
      /\ \A k \in 1 .. Len(tabs) : tabs'[k] = tabs[k]
      /\ tabs'[Len(tabs) + 1] = tab
  BY <1>1
<1>3. OneHome'
  <2>1. PICK i \in 1 .. Len(tabs) : \A j \in 1 .. Len(tabs) : tabs[j].kind = "home" <=> j = i
    BY DEF TabInv, OneHome
  <2>2. ASSUME NEW j \in 1 .. Len(tabs') PROVE tabs'[j].kind = "home" <=> j = i
    BY <1>2, <2>1
  <2> QED BY <1>2, <2>1, <2>2 DEF OneHome
<1>4. MenuShown' BY <1>1 DEF MenuShown
<1> QED BY <1>1, <1>2, <1>3, <1>4 DEF TabInv

LEMMA CloseKeeps == ASSUME TabInv, NEW i \in DOMAIN tabs, CloseTab(i) PROVE TabInv'
<1>1. /\ tabs' = RemoveAt(tabs, i) /\ current' = CurrentWithout(i) /\ tabs \in Seq(Tabs)
      /\ i \in 1 .. Len(tabs) /\ current \in 1 .. Len(tabs) /\ Len(tabs) \in Nat
      /\ tabs[i].kind # "home"
      /\ hexChecked' = (IsTerminal(tabs'[current']) /\ tabs'[current'].hex)
  BY DEF CloseTab, SyncHexViewAction, TabInv
<1>2. /\ tabs' \in Seq(Tabs) /\ Len(tabs') = Len(tabs) - 1
      /\ \A k \in 1 .. Len(tabs) - 1 : tabs'[k] = IF k < i THEN tabs[k] ELSE tabs[k + 1]
  BY <1>1, RemoveAtIs
<1>3. PICK home \in 1 .. Len(tabs) :
         \A j \in 1 .. Len(tabs) : tabs[j].kind = "home" <=> j = home
  BY DEF TabInv, OneHome
<1>4. home # i BY <1>1, <1>3
<1>5. OneHome'
  <2> DEFINE new == IF home < i THEN home ELSE home - 1
  <2>1. new \in 1 .. Len(tabs') BY <1>1, <1>2, <1>4
  <2>2. ASSUME NEW j \in 1 .. Len(tabs') PROVE tabs'[j].kind = "home" <=> j = new
    <3> DEFINE old == IF j < i THEN j ELSE j + 1
    <3>1. old \in 1 .. Len(tabs) /\ tabs'[j] = tabs[old]
      <4>1. j \in 1 .. Len(tabs) - 1 BY <1>2
      <4>2. tabs'[j] = tabs[old] BY <1>2, <4>1
      <4> QED BY <1>1, <4>1, <4>2
    <3>2. old = home <=> j = new BY <1>1, <1>2, <1>4
    <3> HIDE DEF old, new
    <3>3. tabs[old].kind = "home" <=> old = home BY <1>3, <3>1
    <3> QED BY <3>1, <3>2, <3>3
  <2> HIDE DEF new
  <2> QED BY ONLY <2>1, <2>2 DEF OneHome
<1>6. current' \in 1 .. Len(tabs') BY <1>1, <1>2, <1>4 DEF CurrentWithout
<1>7. MenuShown' BY <1>1 DEF MenuShown
<1> QED BY <1>2, <1>5, <1>6, <1>7 DEF TabInv

\* Wherever a tab is moved, the current one stays current.
LEMMA MoveKeeps ==
    ASSUME TabInv, NEW i \in DOMAIN tabs, NEW j \in DOMAIN tabs, MoveTab(i, j) PROVE TabInv'
<1> DEFINE rest == RemoveAt(tabs, i)
           c == IF i < current THEN current - 1 ELSE current
           k == IF i = current THEN j ELSE IF j <= c THEN c + 1 ELSE c
<1>1. /\ tabs \in Seq(Tabs) /\ Len(tabs) \in Nat /\ tabs[i] \in Tabs
      /\ i \in 1 .. Len(tabs) /\ j \in 1 .. Len(tabs) /\ current \in 1 .. Len(tabs)
  BY DEF TabInv
<1>2. /\ rest \in Seq(Tabs) /\ Len(rest) = Len(tabs) - 1
      /\ \A n \in 1 .. Len(tabs) - 1 : rest[n] = IF n < i THEN tabs[n] ELSE tabs[n + 1]
  BY <1>1, RemoveAtIs
<1>3. tabs' = InsertAt(rest, j, tabs[i]) /\ hexChecked' = hexChecked BY DEF MoveTab
<1>4. current' = k
  <2>1. k \in DOMAIN tabs BY <1>1
  <2>2. current' = CHOOSE n \in DOMAIN tabs : n = k
    <3>1. current' = CHOOSE n \in DOMAIN tabs :
             \/ i = current /\ n = j
             \/ i # current /\ n = LET d == IF i < current THEN current - 1 ELSE current
                                   IN  IF j <= d THEN d + 1 ELSE d
      BY DEF MoveTab
    <3> QED BY <3>1
  <2> QED BY <2>1, <2>2
<1> HIDE DEF rest
<1>5. /\ tabs' \in Seq(Tabs) /\ Len(tabs') = Len(tabs)
      /\ \A n \in 1 .. Len(tabs) :
            tabs'[n] = IF n < j THEN rest[n] ELSE IF n = j THEN tabs[i] ELSE rest[n - 1]
  <2>1. j \in 1 .. Len(rest) + 1 BY <1>1, <1>2
  <2>2. /\ tabs' \in Seq(Tabs) /\ Len(tabs') = Len(rest) + 1
        /\ \A n \in 1 .. Len(rest) + 1 :
              tabs'[n] = IF n < j THEN rest[n] ELSE IF n = j THEN tabs[i] ELSE rest[n - 1]
    <3>1. /\ InsertAt(rest, j, tabs[i]) \in Seq(Tabs)
          /\ Len(InsertAt(rest, j, tabs[i])) = Len(rest) + 1
          /\ \A n \in 1 .. Len(rest) + 1 :
                InsertAt(rest, j, tabs[i])[n] =
                    IF n < j THEN rest[n] ELSE IF n = j THEN tabs[i] ELSE rest[n - 1]
      <4> DEFINE e == tabs[i]
                 s == InsertAt(rest, j, e)
      <4>1. rest \in Seq(Tabs) /\ e \in Tabs BY <1>1, <1>2
      <4> HIDE DEF c, k, e
      <4>2. /\ s \in Seq(Tabs) /\ Len(s) = Len(rest) + 1 /\ s[j] = e
            /\ \A m \in 1 .. j - 1 : s[m] = rest[m]
            /\ \A m \in j + 1 .. Len(rest) + 1 : s[m] = rest[m - 1]
        BY ONLY <2>1, <4>1, InsertAtIs
      <4> HIDE DEF s
      <4>3. ASSUME NEW n \in 1 .. Len(rest) + 1
            PROVE  s[n] = IF n < j THEN rest[n] ELSE IF n = j THEN e ELSE rest[n - 1]
        BY <1>1, <1>2, <4>2
      <4> QED BY <4>2, <4>3 DEF s, e
    <3> QED BY <1>3, <3>1
  <2>3. Len(rest) + 1 = Len(tabs) BY <1>1, <1>2
  <2> QED BY <2>2, <2>3
<1>6. ASSUME NEW h \in 1 .. Len(tabs)
      PROVE  LET d == IF i < h THEN h - 1 ELSE h
                 new == IF i = h THEN j ELSE IF j <= d THEN d + 1 ELSE d
             IN  new \in 1 .. Len(tabs) /\ tabs'[new] = tabs[h]
  <2>1. CASE h = i BY <1>1, <1>5, <2>1
  <2>2. CASE h < i
    <3>1. rest[h] = tabs[h] BY <1>1, <1>2, <2>2
    <3> QED BY <1>1, <1>5, <2>2, <3>1
  <2>3. CASE h > i
    <3>1. rest[h - 1] = tabs[h]
      <4>1. h - 1 \in 1 .. Len(tabs) - 1 /\ ~(h - 1 < i) /\ (h - 1) + 1 = h BY <1>1, <2>3
      <4> QED BY <1>2, <4>1
    <3> QED BY <1>1, <1>5, <2>3, <3>1
  <2> QED BY <1>1, <2>1, <2>2, <2>3
<1>7. current' \in 1 .. Len(tabs) /\ tabs'[current'] = tabs[current] BY <1>1, <1>4, <1>6
<1>8. OneHome'
  <2>1. PICK home \in 1 .. Len(tabs) :
           \A n \in 1 .. Len(tabs) : tabs[n].kind = "home" <=> n = home
    BY DEF TabInv, OneHome
  <2> DEFINE d == IF i < home THEN home - 1 ELSE home
             new == IF i = home THEN j ELSE IF j <= d THEN d + 1 ELSE d
  <2>2. new \in 1 .. Len(tabs) /\ tabs'[new] = tabs[home] BY <1>6
  <2>3. ASSUME NEW n \in 1 .. Len(tabs), n # new PROVE tabs'[n].kind # "home"
    <3> DEFINE m == IF n < j THEN n ELSE n - 1
               old == IF n = j THEN i ELSE IF m < i THEN m ELSE m + 1
    <3>1. old \in 1 .. Len(tabs) BY <1>1
    <3>2. tabs'[n] = tabs[old]
      <4>1. CASE n = j BY <1>1, <1>5, <4>1
      <4>2. CASE n # j
        <5>1. m \in 1 .. Len(tabs) - 1 /\ tabs'[n] = rest[m] BY <1>1, <1>5, <4>2
        <5> QED BY <1>1, <1>2, <4>2, <5>1
      <4> QED BY <4>1, <4>2
    <3>3. old # home BY <1>1, <2>3
    <3> HIDE DEF old
    <3> QED BY <2>1, <3>1, <3>2, <3>3
  <2> HIDE DEF d, new
  <2>4. tabs[home].kind = "home" BY <2>1
  <2>5. \A n \in 1 .. Len(tabs') : tabs'[n].kind = "home" <=> n = new
    BY <1>5, <2>2, <2>3, <2>4
  <2>6. new \in 1 .. Len(tabs') BY <1>5, <2>2
  <2> QED BY ONLY <2>5, <2>6 DEF OneHome
<1>9. MenuShown' BY <1>3, <1>7 DEF MenuShown, TabInv
<1> QED BY <1>5, <1>7, <1>8, <1>9 DEF TabInv

\* Reconnect puts a tab for the same session in the place of the current one.
LEMMA RespawnKeeps == ASSUME TabInv, NEW replaces \in BOOLEAN, Respawn(replaces) PROVE TabInv'
<1> DEFINE copy == [tabs[current] EXCEPT !.hex = FALSE]
           added == Append(tabs, copy)
<1>1. /\ tabs \in Seq(Tabs) /\ Len(tabs) \in Nat /\ current \in 1 .. Len(tabs)
      /\ tabs[current] \in Tabs /\ tabs[current].kind \in {"terminal", "plain"}
  BY DEF Respawn, IsTerminal, TabInv
<1>2. copy \in Tabs /\ copy.kind \in {"terminal", "plain"} BY <1>1 DEF Tabs
<1>3. /\ tabs' = IF replaces THEN RemoveAt(added, current) ELSE added
      /\ current' = Len(tabs')
      /\ hexChecked' = (IsTerminal(tabs'[current']) /\ tabs'[current'].hex)
  BY DEF Respawn, SyncHexViewAction
<1> HIDE DEF copy
<1>4. /\ added \in Seq(Tabs) /\ Len(added) = Len(tabs) + 1
      /\ \A n \in 1 .. Len(tabs) : added[n] = tabs[n]
      /\ added[Len(tabs) + 1] = copy
  BY <1>1, <1>2
<1> HIDE DEF added
<1>5. PICK home \in 1 .. Len(tabs) :
         \A n \in 1 .. Len(tabs) : tabs[n].kind = "home" <=> n = home
  BY DEF TabInv, OneHome
<1>6. MenuShown' BY <1>3 DEF MenuShown
<1>7. CASE replaces
  <2>1. /\ tabs' \in Seq(Tabs) /\ Len(tabs') = Len(tabs)
        /\ \A n \in 1 .. Len(tabs) : tabs'[n] = IF n < current THEN added[n] ELSE added[n + 1]
    <3>1. current \in 1 .. Len(added) /\ Len(added) - 1 = Len(tabs) BY <1>1, <1>4
    <3> QED BY <1>3, <1>4, <1>7, <3>1, RemoveAtIs
  <2>2. current' \in 1 .. Len(tabs') BY <1>1, <1>3, <2>1
  <2>3. OneHome'
    <3> DEFINE new == IF home < current THEN home ELSE home - 1
    <3>1. home # current BY <1>1, <1>5
    <3>2. new \in 1 .. Len(tabs) BY <1>1, <3>1
    <3>3. ASSUME NEW n \in 1 .. Len(tabs) PROVE tabs'[n].kind = "home" <=> n = new
      <4>1. CASE n < current BY <1>1, <1>4, <1>5, <2>1, <3>1, <4>1
      <4>2. CASE ~(n < current) /\ n < Len(tabs)
        <5>1. n + 1 \in 1 .. Len(tabs) /\ tabs'[n] = tabs[n + 1] BY <1>1, <1>4, <2>1, <4>2
        <5>2. tabs[n + 1].kind = "home" <=> n + 1 = home BY <1>5, <5>1
        <5>3. n + 1 = home <=> n = new BY <1>1, <3>1, <4>2
        <5> QED BY <5>1, <5>2, <5>3
      <4>3. CASE ~(n < current) /\ n = Len(tabs)
        <5>1. tabs'[n] = copy BY <1>1, <1>4, <2>1, <4>3
        <5> QED BY <1>1, <1>2, <3>1, <4>3, <5>1
      <4> QED BY <1>1, <4>1, <4>2, <4>3
    <3> HIDE DEF new
    <3>4. new \in 1 .. Len(tabs') /\ \A n \in 1 .. Len(tabs') : tabs'[n].kind = "home" <=> n = new
      BY <2>1, <3>2, <3>3
    <3> QED BY ONLY <3>4 DEF OneHome
  <2> QED BY <1>6, <2>1, <2>2, <2>3 DEF TabInv
<1>8. CASE ~replaces
  <2>1. tabs' = added /\ current' = Len(tabs) + 1 BY <1>3, <1>4, <1>8
  <2>2. ASSUME NEW n \in 1 .. Len(tabs') PROVE tabs'[n].kind = "home" <=> n = home
    BY <1>1, <1>2, <1>4, <1>5, <2>1
  <2>3. home \in 1 .. Len(tabs') BY <1>1, <1>4, <1>5, <2>1
  <2>4. OneHome'
    <3>1. \A n \in 1 .. Len(tabs') : tabs'[n].kind = "home" <=> n = home BY <2>2
    <3> QED BY ONLY <2>3, <3>1 DEF OneHome
  <2> QED BY <1>1, <1>4, <1>6, <2>1, <2>4 DEF TabInv
<1> QED BY <1>7, <1>8

LEMMA SetHexKeeps == ASSUME TabInv, NEW on \in BOOLEAN, SetHexViewForCurrent(on) PROVE TabInv'
<1>1. /\ tabs \in Seq(Tabs) /\ Len(tabs) \in Nat /\ current \in 1 .. Len(tabs)
      /\ tabs[current] \in Tabs /\ tabs[current].kind \in {"terminal", "plain"}
      /\ hexChecked' = on /\ current' = current /\ tabs' = [tabs EXCEPT ![current].hex = on]
  BY DEF SetHexViewForCurrent, IsTerminal, TabInv
<1>2. [tabs[current] EXCEPT !.hex = on] \in Tabs
      /\ [tabs[current] EXCEPT !.hex = on].kind \in {"terminal", "plain"}
      /\ [tabs[current] EXCEPT !.hex = on].hex = on
  BY <1>1 DEF Tabs
<1>3. /\ tabs' \in Seq(Tabs) /\ Len(tabs') = Len(tabs)
      /\ \A n \in 1 .. Len(tabs) :
            tabs'[n] = IF n = current THEN [tabs[current] EXCEPT !.hex = on] ELSE tabs[n]
  BY <1>1, <1>2
<1>4. OneHome'
  <2>1. PICK home \in 1 .. Len(tabs) :
           \A n \in 1 .. Len(tabs) : tabs[n].kind = "home" <=> n = home
    BY DEF TabInv, OneHome
  <2>2. ASSUME NEW n \in 1 .. Len(tabs) PROVE tabs'[n].kind = "home" <=> n = home
    BY <1>1, <1>2, <1>3, <2>1
  <2> QED BY <1>3, <2>1, <2>2 DEF OneHome
<1>5. tabs'[current'].kind \in {"terminal", "plain"} /\ tabs'[current'].hex = on BY <1>1, <1>2, <1>3
<1>6. MenuShown' BY <1>1, <1>5 DEF MenuShown, IsTerminal
<1> QED BY <1>1, <1>3, <1>4, <1>6 DEF TabInv

LEMMA TabStep == RowInv /\ TabInv /\ [Next]_windowVars => TabInv'
<1> SUFFICES ASSUME RowInv, TabInv, [Next]_windowVars PROVE TabInv' OBVIOUS
<1>1. ASSUME UNCHANGED tabVars PROVE TabInv'
  BY <1>1 DEF TabInv, OneHome, MenuShown, tabVars
<1>2. ASSUME NEW kind \in Kinds, NEW h \in Hosts \union {Unknown}, StartSession(kind, h)
      PROVE  TabInv'
  <2>1. SessionTab(kind, h) \in Tabs /\ SessionTab(kind, h).kind # "home"
    BY DEF SessionTab, Tabs, Kinds
  <2> QED BY <1>2, <2>1, AddKeeps DEF StartSession
<1>3. ASSUME NEW h \in Hosts, NEW asFiles \in BOOLEAN, Connect(h, asFiles) PROVE TabInv'
  <2> DEFINE kind == IF asFiles THEN "files" ELSE profiles[h].kind
  <2>1. kind \in Kinds BY <1>3 DEF Connect, RowInv, AreProfiles, Profiles, Kinds
  <2>2. UNCHANGED tabVars \/ StartSession(kind, h) BY <1>3 DEF Connect
  <2> QED BY <1>1, <1>2, <2>1, <2>2
<1>4. CASE PasswordGiven
  <2>1. dialog.kind \in Kinds /\ dialog.host \in Hosts BY <1>4 DEF PasswordGiven, RowInv
  <2> QED BY <1>1, <1>2, <1>4, <2>1 DEF PasswordGiven
<1>5. CASE QuickConnectFromText \/ OpenLocalShell
  <2>1. {"terminal", "plain"} \subseteq Kinds /\ Unknown \in Hosts \union {Unknown} BY DEF Kinds
  <2>2. \E kind \in {"terminal", "plain"} : StartSession(kind, Unknown)
    BY <1>5 DEF QuickConnectFromText, OpenLocalShell, StartSession
  <2> QED BY <1>2, <2>1, <2>2
<1>6. CASE QuickConnectAccepted
  <2>1. PICK profile \in Profiles, h \in Hosts \ DOMAIN store : StartSession(profile.kind, h)
    BY <1>6 DEF QuickConnectAccepted
  <2>2. profile.kind \in Kinds BY DEF Profiles, Kinds
  <2> QED BY <1>2, <2>1, <2>2
<1>7. ASSUME NEW i \in DOMAIN tabs, SelectTab(i) PROVE TabInv'
  <2>1. i \in 1 .. Len(tabs) BY DEF TabInv
  <2>2. /\ current' = i /\ UNCHANGED tabs
        /\ hexChecked' = (IsTerminal(tabs'[current']) /\ tabs'[current'].hex)
    BY <1>7 DEF SelectTab, SyncHexViewAction
  <2>3. MenuShown' BY <2>2 DEF MenuShown
  <2> QED BY <2>1, <2>2, <2>3 DEF TabInv, OneHome
<1>8. CASE \/ \E h \in Hosts : EditHost(h) \/ DeleteHost(h)
           \/ OpenQuickConnect \/ OpenSessionOptions
           \/ EditAccepted \/ DeleteConfirmed \/ Cancelled \/ ImportSettings
           \/ \E i \in DOMAIN tabs :
                 RememberHostOs(tabs[i]) \/ (\E key \in Keys : VerifyHostKey(tabs[i], key))
           \/ UNCHANGED windowVars
  BY <1>1, <1>8 DEF EditHost, DeleteHost, OpenQuickConnect, OpenSessionOptions, EditAccepted,
                    DeleteConfirmed, Cancelled, ImportSettings, RememberHostOs,
                    VerifyHostKey, windowVars
<1> QED BY <1>3, <1>4, <1>5, <1>6, <1>7, <1>8, CloseKeeps, MoveKeeps, RespawnKeeps, SetHexKeeps
        DEF Next

-----------------------------------------------------------------------------

\* A tab is always current, one tab is the home tab, and the menu's check is
\* that of the current terminal.
THEOREM TabsTrue == Spec => []HexShown
<1>1. TabInv => HexShown
  <2> SUFFICES ASSUME TabInv PROVE HexShown OBVIOUS
  <2>1. DOMAIN tabs = 1 .. Len(tabs) BY DEF TabInv
  <2>2. PICK home \in 1 .. Len(tabs) :
           \A n \in 1 .. Len(tabs) : tabs[n].kind = "home" <=> n = home
    BY DEF TabInv, OneHome
  <2>3. {i \in DOMAIN tabs : tabs[i].kind = "home"} = {home} BY <2>1, <2>2
  <2>4. Cardinality({home}) = 1 BY FS_Singleton
  <2> QED BY <2>1, <2>3, <2>4 DEF TabInv, HexShown, HomeStays
<1> QED BY <1>1, WindowInit, RowStep, TabStep, PTL DEF Spec

-----------------------------------------------------------------------------
(* The list of transfers: the inductive invariant. *)

Active == {"Queued", "Transferring"}
Ended == {"Done", "Failed", "Disconnected"}
Rows == [transfer : Nat, status : Active \union Ended]
Transfers == [id : Nat, number : Nat]

TableType ==
    /\ table \in Seq(Rows) /\ total \in Nat
    /\ issued \in [Addresses -> Nat] /\ live \in [Addresses -> SUBSET Transfers]
    /\ DOMAIN rows \subseteq Addresses \X Nat
    /\ \A k \in DOMAIN rows : rows[k] \in 1 .. Len(table)

\* A session has given a number to one transfer only, and has not yet given
\* the next one.
IdsGiven ==
    \A s \in Addresses : \A t \in live[s] :
        t.id < issued[s] /\ \A u \in live[s] : u.id = t.id => u = t

\* m_rows has the transfers that have not ended, and each a row of its own.
RowsOwned ==
    /\ \A k \in DOMAIN rows : \E t \in live[k[1]] : k = Key(k[1], t)
    /\ \A k, l \in DOMAIN rows : rows[k] = rows[l] => k = l
    /\ \A i \in 1 .. Len(table) : table[i].status \in Active => \E k \in DOMAIN rows : rows[k] = i

\* The row of a transfer shows it.
LiveShown ==
    \A s \in Addresses : \A t \in live[s] :
        /\ Key(s, t) \in DOMAIN rows
        /\ table[rows[Key(s, t)]].transfer = t.number
        /\ table[rows[Key(s, t)]].status \in Active

TableInv == TableType /\ IdsGiven /\ RowsOwned /\ LiveShown

LEMMA TableStarts == TableInit => TableInv
<1> SUFFICES ASSUME TableInit PROVE TableInv OBVIOUS
<1> USE DEF TableInit
<1>1. table \in Seq(Rows) /\ Len(table) = 0 /\ DOMAIN rows = {} OBVIOUS
<1>2. TableType BY <1>1 DEF TableType
<1> QED BY <1>1, <1>2 DEF TableInv, IdsGiven, RowsOwned, LiveShown

LEMMA QueuedInv == ASSUME TableInv, NEW s \in Addresses, OnQueued(s) PROVE TableInv'
<1> DEFINE t == [id |-> issued[s], number |-> total + 1]
           new == Key(s, t)
<1>1. /\ table' = Append(table, Shows(t.number, "Queued"))
      /\ rows' = Placed(rows, new, Len(table'))
      /\ live' = [live EXCEPT ![s] = @ \union {t}]
      /\ issued' = [issued EXCEPT ![s] = @ + 1] /\ total' = total + 1
  BY DEF OnQueued
<1>2. /\ table \in Seq(Rows) /\ total \in Nat /\ Len(table) \in Nat
      /\ issued \in [Addresses -> Nat] /\ live \in [Addresses -> SUBSET Transfers]
  BY DEF TableInv, TableType
<1>3. t \in Transfers /\ t.id = issued[s] /\ t.number = total + 1 /\ new = <<s, issued[s]>>
  BY <1>2 DEF Transfers, Key
<1>4. new \notin DOMAIN rows
  <2> SUFFICES ASSUME new \in DOMAIN rows PROVE FALSE OBVIOUS
  <2>1. PICK u \in live[s] : new = <<s, u.id>> BY <1>3 DEF TableInv, RowsOwned, Key
  <2> QED BY <1>2, <1>3, <2>1 DEF TableInv, IdsGiven
<1> HIDE DEF t, new
<1>5. /\ table' \in Seq(Rows) /\ Len(table') = Len(table) + 1
      /\ \A i \in 1 .. Len(table) : table'[i] = table[i]
      /\ table'[Len(table) + 1].transfer = t.number
      /\ table'[Len(table) + 1].status = "Queued"
  <2>1. Shows(t.number, "Queued") \in Rows BY <1>3, <1>2 DEF Shows, Rows, Active
  <2> QED BY <1>1, <1>2, <2>1 DEF Shows
<1>6. /\ DOMAIN rows' = DOMAIN rows \union {new}
      /\ rows'[new] = Len(table) + 1
      /\ \A k \in DOMAIN rows : rows'[k] = rows[k]
  BY <1>1, <1>4, <1>5 DEF Placed
<1>7. /\ live'[s] = live[s] \union {t}
      /\ \A r \in Addresses \ {s} : live'[r] = live[r] /\ issued'[r] = issued[r]
      /\ issued'[s] = issued[s] + 1
      /\ issued' \in [Addresses -> Nat] /\ live' \in [Addresses -> SUBSET Transfers]
  BY <1>1, <1>2, <1>3
<1>8. TableType'
  <2>1. new \in Addresses \X Nat BY <1>2, <1>3
  <2>2. DOMAIN rows' \subseteq Addresses \X Nat BY <1>6, <2>1 DEF TableInv, TableType
  <2>3. \A k \in DOMAIN rows' : rows'[k] \in 1 .. Len(table')
    BY <1>2, <1>5, <1>6 DEF TableInv, TableType
  <2> QED BY <1>1, <1>2, <1>5, <1>7, <2>2, <2>3 DEF TableType
<1>9. IdsGiven'
  <2> SUFFICES ASSUME NEW r \in Addresses, NEW u \in live'[r]
               PROVE  u.id < issued'[r] /\ \A v \in live'[r] : v.id = u.id => v = u
    BY DEF IdsGiven
  <2>1. CASE r # s BY <1>7, <2>1 DEF TableInv, IdsGiven
  <2>2. CASE r = s
    <3>1. \A v \in live[s] : v.id \in Nat /\ v.id < issued[s] BY <1>2 DEF TableInv, IdsGiven, Transfers
    <3>2. issued[s] \in Nat BY <1>2
    <3>3. \A v \in live[s] : v.id # t.id BY <1>3, <3>1, <3>2
    <3>4. CASE u = t BY <1>3, <1>7, <2>2, <3>2, <3>3, <3>4
    <3>5. CASE u \in live[s] BY <1>3, <1>7, <2>2, <3>1, <3>2, <3>3, <3>5 DEF TableInv, IdsGiven
    <3> QED BY <1>7, <2>2, <3>4, <3>5
  <2> QED BY <2>1, <2>2
<1>10. RowsOwned'
  <2>1. ASSUME NEW k \in DOMAIN rows' PROVE \E u \in live'[k[1]] : k = Key(k[1], u)
    <3>1. CASE k = new BY <1>3, <1>7, <3>1 DEF Key
    <3>2. CASE k \in DOMAIN rows
      <4>1. PICK u \in live[k[1]] : k = Key(k[1], u) BY <3>2 DEF TableInv, RowsOwned
      <4>2. k[1] \in Addresses BY <3>2 DEF TableInv, TableType
      <4>3. u \in live'[k[1]] BY <1>7, <4>1, <4>2
      <4> QED BY <4>1, <4>3
    <3> QED BY <1>6, <3>1, <3>2
  <2>2. \A k \in DOMAIN rows : rows[k] \in 1 .. Len(table) BY DEF TableInv, TableType
  <2>3. ASSUME NEW k \in DOMAIN rows', NEW l \in DOMAIN rows', rows'[k] = rows'[l] PROVE k = l
    BY <1>2, <1>6, <2>2, <2>3 DEF TableInv, RowsOwned
  <2>4. ASSUME NEW i \in 1 .. Len(table'), table'[i].status \in Active
        PROVE  \E k \in DOMAIN rows' : rows'[k] = i
    <3>1. CASE i = Len(table) + 1 BY <1>6, <3>1
    <3>2. CASE i \in 1 .. Len(table) BY <1>5, <1>6, <2>4, <3>2 DEF TableInv, RowsOwned
    <3> QED BY <1>2, <1>5, <3>1, <3>2
  <2> QED BY <2>1, <2>3, <2>4 DEF RowsOwned, Key
<1>11. LiveShown'
  <2> SUFFICES ASSUME NEW r \in Addresses, NEW u \in live'[r]
               PROVE  /\ Key(r, u) \in DOMAIN rows'
                      /\ table'[rows'[Key(r, u)]].transfer = u.number
                      /\ table'[rows'[Key(r, u)]].status \in Active
    BY DEF LiveShown, Key
  <2>1. CASE u \in live[r]
    <3>1. Key(r, u) \in DOMAIN rows /\ rows[Key(r, u)] \in 1 .. Len(table)
      BY <2>1 DEF TableInv, LiveShown, TableType
    <3> QED BY <1>5, <1>6, <2>1, <3>1 DEF TableInv, LiveShown
  <2>2. CASE r = s /\ u = t
    <3>1. Key(r, u) = new BY <2>2 DEF new
    <3> QED BY <1>5, <1>6, <2>2, <3>1 DEF Active
  <2> QED BY <1>7, <2>1, <2>2
<1> QED BY <1>8, <1>9, <1>10, <1>11 DEF TableInv

\* A change of one row that keeps what it shows and how far that has come
\* between beginning and end.
LEMMA ProgressInv ==
    ASSUME TableInv, NEW s \in Addresses, NEW t \in live[s], OnProgress(s, t) PROVE TableInv'
<1>1. /\ table \in Seq(Rows) /\ Len(table) \in Nat /\ UNCHANGED <<rows, live, issued, total>>
      /\ Key(s, t) \in DOMAIN rows /\ rows[Key(s, t)] \in 1 .. Len(table)
  BY DEF TableInv, TableType, LiveShown, OnProgress
<1> DEFINE row == rows[Key(s, t)]
<1>2. table' = [table EXCEPT ![row] = Progressed(@)] BY <1>1 DEF OnProgress
<1>3. /\ Progressed(table[row]) \in Rows
      /\ Progressed(table[row]).transfer = table[row].transfer
      /\ Progressed(table[row]).status = "Transferring"
  <2>1. table[row] \in Rows BY <1>1
  <2> QED BY <2>1 DEF Progressed, Rows, Active
<1>4. row \in 1 .. Len(table) BY <1>1
<1> HIDE DEF row
<1>5. /\ table' \in Seq(Rows) /\ Len(table') = Len(table)
      /\ \A i \in 1 .. Len(table) :
            /\ table'[i].transfer = table[i].transfer
            /\ i # row => table'[i] = table[i]
      /\ table'[row].status = "Transferring"
  BY <1>1, <1>2, <1>3, <1>4
<1>6. TableType' BY <1>1, <1>5 DEF TableInv, TableType
<1>7. IdsGiven' BY <1>1 DEF TableInv, IdsGiven
<1>8. RowsOwned'
  <2>1. ASSUME NEW i \in 1 .. Len(table'), table'[i].status \in Active
        PROVE  \E k \in DOMAIN rows : rows[k] = i
    BY <1>1, <1>5, <2>1 DEF TableInv, RowsOwned, row
  <2> QED BY <1>1, <2>1 DEF TableInv, RowsOwned, Key
<1>9. LiveShown'
  <2> SUFFICES ASSUME NEW r \in Addresses, NEW u \in live[r]
               PROVE  /\ Key(r, u) \in DOMAIN rows
                      /\ table'[rows[Key(r, u)]].transfer = u.number
                      /\ table'[rows[Key(r, u)]].status \in Active
    BY <1>1 DEF LiveShown, Key
  <2>1. /\ Key(r, u) \in DOMAIN rows /\ rows[Key(r, u)] \in 1 .. Len(table)
        /\ table[rows[Key(r, u)]].transfer = u.number
        /\ table[rows[Key(r, u)]].status \in Active
    BY DEF TableInv, LiveShown, TableType
  <2>2. CASE rows[Key(r, u)] = row BY <1>5, <2>1, <2>2 DEF Active
  <2>3. CASE rows[Key(r, u)] # row BY <1>5, <2>1, <2>3
  <2> QED BY <2>2, <2>3
<1> QED BY <1>6, <1>7, <1>8, <1>9 DEF TableInv

LEMMA FinishedInv ==
    ASSUME TableInv, NEW s \in Addresses, NEW t \in live[s], OnFinished(s, t) PROVE TableInv'
<1> DEFINE key == Key(s, t)
           row == rows[key]
<1>1. /\ table \in Seq(Rows) /\ Len(table) \in Nat
      /\ live \in [Addresses -> SUBSET Transfers]
      /\ key \in DOMAIN rows /\ row \in 1 .. Len(table)
  BY DEF TableInv, TableType, LiveShown
<1>2. PICK status \in {"Done", "Failed"} : table' = [table EXCEPT ![row].status = status]
  BY <1>1 DEF OnFinished
<1>3. /\ live' = [live EXCEPT ![s] = @ \ {t}] /\ rows' = Forget(rows, {key})
      /\ UNCHANGED <<issued, total>>
  BY DEF OnFinished, Erased
<1>4. /\ DOMAIN rows' = DOMAIN rows \ {key}
      /\ \A k \in DOMAIN rows' : rows'[k] = rows[k]
  BY <1>3 DEF Forget
<1>5. /\ live' \in [Addresses -> SUBSET Transfers]
      /\ live'[s] = live[s] \ {t}
      /\ \A r \in Addresses \ {s} : live'[r] = live[r]
  BY <1>1, <1>3
<1>6. \A k \in DOMAIN rows' : rows'[k] \in 1 .. Len(table) /\ rows'[k] # row
  BY <1>1, <1>4 DEF TableInv, RowsOwned, TableType
<1> HIDE DEF row
<1>7. /\ table' \in Seq(Rows) /\ Len(table') = Len(table)
      /\ \A i \in 1 .. Len(table) : i # row => table'[i] = table[i]
      /\ table'[row].status \notin Active
  <2>1. table[row] \in Rows BY <1>1
  <2>2. [table[row] EXCEPT !.status = status] \in Rows
        /\ [table[row] EXCEPT !.status = status].status = status
    BY <2>1 DEF Rows, Ended
  <2> QED BY <1>1, <1>2, <2>2 DEF Active
<1> HIDE DEF key
<1>8. TableType' BY <1>3, <1>4, <1>5, <1>6, <1>7 DEF TableInv, TableType
<1>9. IdsGiven' BY <1>3, <1>5 DEF TableInv, IdsGiven
<1>10. ASSUME NEW r \in Addresses, NEW u \in live[r], Key(r, u) = key PROVE r = s /\ u = t
  BY <1>10 DEF Key, key, TableInv, IdsGiven
<1>11. RowsOwned'
  <2>1. ASSUME NEW k \in DOMAIN rows' PROVE \E u \in live'[k[1]] : k = Key(k[1], u)
    <3>1. k[1] \in Addresses /\ k \in DOMAIN rows /\ k # key BY <1>4 DEF TableInv, TableType
    <3>2. PICK u \in live[k[1]] : k = Key(k[1], u) BY <3>1 DEF TableInv, RowsOwned
    <3>3. k[1] = s => u # t BY <3>1, <3>2 DEF key
    <3>4. u \in live'[k[1]] BY <1>5, <3>1, <3>3
    <3> QED BY <3>2, <3>4
  <2>2. ASSUME NEW i \in 1 .. Len(table'), table'[i].status \in Active
        PROVE  \E k \in DOMAIN rows' : rows'[k] = i
    <3>1. i # row /\ table[i].status \in Active /\ i \in 1 .. Len(table) BY <1>7, <2>2
    <3>2. PICK k \in DOMAIN rows : rows[k] = i BY <3>1 DEF TableInv, RowsOwned
    <3>3. k # key BY <3>1, <3>2 DEF row
    <3> QED BY <1>4, <3>2, <3>3
  <2>3. \A k, l \in DOMAIN rows' : rows'[k] = rows'[l] => k = l BY <1>4 DEF TableInv, RowsOwned
  <2> QED BY <2>1, <2>2, <2>3 DEF RowsOwned, Key
<1>12. LiveShown'
  <2> SUFFICES ASSUME NEW r \in Addresses, NEW u \in live'[r]
               PROVE  /\ Key(r, u) \in DOMAIN rows'
                      /\ table'[rows'[Key(r, u)]].transfer = u.number
                      /\ table'[rows'[Key(r, u)]].status \in Active
    BY DEF LiveShown, Key
  <2>1. u \in live[r] /\ ~(r = s /\ u = t) BY <1>5
  <2>2. Key(r, u) \in DOMAIN rows' BY <1>4, <1>10, <2>1 DEF TableInv, LiveShown
  <2>3. table'[rows'[Key(r, u)]] = table[rows[Key(r, u)]] BY <1>4, <1>6, <1>7, <2>2
  <2> QED BY <2>1, <2>2, <2>3 DEF TableInv, LiveShown
<1> QED BY <1>8, <1>9, <1>11, <1>12 DEF TableInv

\* The rows of a session that is gone are those of its transfers.
LEMMA ForgetInv == ASSUME TableInv, NEW s \in Addresses, ForgetSession(s) PROVE TableInv'
<1> DEFINE gone == {k \in DOMAIN rows : k[1] = s}
           lost == {i \in DOMAIN table : \E k \in gone : rows[k] = i}
<1>1. /\ table \in Seq(Rows) /\ Len(table) \in Nat /\ DOMAIN table = 1 .. Len(table)
      /\ live \in [Addresses -> SUBSET Transfers] /\ issued \in [Addresses -> Nat]
  BY DEF TableInv, TableType
<1>2. /\ table' = [i \in DOMAIN table |->
                      IF \E k \in gone : rows[k] = i
                      THEN [table[i] EXCEPT !.status = "Disconnected"] ELSE table[i]]
      /\ rows' = Forget(rows, gone) /\ live' = [live EXCEPT ![s] = {}]
      /\ issued' = [issued EXCEPT ![s] = 0] /\ UNCHANGED total
  BY DEF ForgetSession
<1>3. /\ DOMAIN rows' = DOMAIN rows \ gone
      /\ \A k \in DOMAIN rows' : rows'[k] = rows[k] /\ k[1] # s
  BY <1>2 DEF Forget
<1>4. /\ live' \in [Addresses -> SUBSET Transfers] /\ issued' \in [Addresses -> Nat]
      /\ live'[s] = {} /\ \A r \in Addresses \ {s} : live'[r] = live[r] /\ issued'[r] = issued[r]
  BY <1>1, <1>2
<1>5. /\ table' \in Seq(Rows) /\ Len(table') = Len(table)
      /\ \A i \in 1 .. Len(table) :
            /\ i \notin lost => table'[i] = table[i]
            /\ i \in lost => table'[i].status \notin Active
  <2>1. ASSUME NEW i \in 1 .. Len(table)
        PROVE  /\ [table[i] EXCEPT !.status = "Disconnected"] \in Rows
               /\ [table[i] EXCEPT !.status = "Disconnected"].status = "Disconnected"
    <3>1. table[i] \in Rows BY <1>1
    <3> QED BY <3>1 DEF Rows, Ended
  <2>2. table' = [i \in 1 .. Len(table) |->
                    IF i \in lost THEN [table[i] EXCEPT !.status = "Disconnected"] ELSE table[i]]
    BY <1>1, <1>2
  <2> HIDE DEF lost
  <2>3. \A i \in 1 .. Len(table) :
           table'[i] = IF i \in lost THEN [table[i] EXCEPT !.status = "Disconnected"] ELSE table[i]
    BY <2>2
  <2>4. ASSUME NEW i \in 1 .. Len(table) PROVE table'[i] \in Rows
    <3>1. table[i] \in Rows BY <1>1
    <3>2. CASE i \in lost BY <2>1, <2>3, <3>2
    <3>3. CASE i \notin lost BY <2>3, <3>1, <3>3
    <3> QED BY <3>2, <3>3
  <2>5. table' \in Seq(Rows) /\ Len(table') = Len(table) BY <1>1, <2>2, <2>4
  <2> QED BY <2>1, <2>3, <2>5 DEF Active
<1>6. \A k \in DOMAIN rows' : rows'[k] \in 1 .. Len(table) /\ rows'[k] \notin lost
  BY <1>3 DEF TableInv, RowsOwned, TableType
<1>7. TableType' BY <1>2, <1>3, <1>4, <1>5, <1>6 DEF TableInv, TableType
<1>8. IdsGiven' BY <1>4 DEF TableInv, IdsGiven
<1>9. RowsOwned'
  <2>1. ASSUME NEW k \in DOMAIN rows' PROVE \E u \in live'[k[1]] : k = Key(k[1], u)
    <3>1. k[1] \in Addresses \ {s} /\ k \in DOMAIN rows BY <1>3 DEF TableInv, TableType
    <3> QED BY <1>4, <3>1 DEF TableInv, RowsOwned
  <2>2. ASSUME NEW i \in 1 .. Len(table'), table'[i].status \in Active
        PROVE  \E k \in DOMAIN rows' : rows'[k] = i
    <3>1. i \notin lost /\ table[i].status \in Active /\ i \in 1 .. Len(table) BY <1>5, <2>2
    <3>2. PICK k \in DOMAIN rows : rows[k] = i BY <3>1 DEF TableInv, RowsOwned
    <3>3. k \notin gone BY <1>1, <3>1, <3>2
    <3> QED BY <1>3, <3>2, <3>3
  <2>3. \A k, l \in DOMAIN rows' : rows'[k] = rows'[l] => k = l BY <1>3 DEF TableInv, RowsOwned
  <2> QED BY <2>1, <2>2, <2>3 DEF RowsOwned, Key
<1>10. LiveShown'
  <2> SUFFICES ASSUME NEW r \in Addresses, NEW u \in live'[r]
               PROVE  /\ Key(r, u) \in DOMAIN rows'
                      /\ table'[rows'[Key(r, u)]].transfer = u.number
                      /\ table'[rows'[Key(r, u)]].status \in Active
    BY DEF LiveShown, Key
  <2>1. r # s /\ u \in live[r] BY <1>4
  <2>2. Key(r, u) \in DOMAIN rows' BY <1>3, <2>1 DEF TableInv, LiveShown, Key
  <2>3. table'[rows'[Key(r, u)]] = table[rows[Key(r, u)]] BY <1>3, <1>5, <1>6, <2>2
  <2> QED BY <2>1, <2>2, <2>3 DEF TableInv, LiveShown
<1> QED BY <1>7, <1>8, <1>9, <1>10 DEF TableInv

-----------------------------------------------------------------------------
(* Removing rows.  The place of a row among those that stay numbers them    *)
(* from 1 to as many as there are.                                          *)

LEMMA PlacesInOrder ==
    ASSUME NEW n \in Nat, NEW kept \in SUBSET (1 .. n)
    PROVE  /\ Cardinality(kept) \in Nat
           /\ \A j \in kept : Compacted(j, kept) \in 1 .. Cardinality(kept)
           /\ \A i, j \in kept : Compacted(i, kept) = Compacted(j, kept) => i = j
           /\ \A i \in 1 .. Cardinality(kept) : \E j \in kept : Compacted(j, kept) = i
<1> DEFINE Upto(j) == {g \in kept : g <= j}
<1>1. IsFiniteSet(kept) /\ Cardinality(kept) \in Nat
  <2>1. IsFiniteSet(1 .. n) BY FS_Interval
  <2> QED BY <2>1, FS_Subset, FS_CardinalityType
<1>2. ASSUME NEW j \in kept
      PROVE  /\ IsFiniteSet(Upto(j)) /\ Upto(j) \in SUBSET kept
             /\ Cardinality(Upto(j)) \in 1 .. Cardinality(kept)
  <2>1. Upto(j) \in SUBSET kept OBVIOUS
  <2>2. IsFiniteSet(Upto(j)) /\ Cardinality(Upto(j)) <= Cardinality(kept)
    BY <1>1, <2>1, FS_Subset
  <2>3. Cardinality(Upto(j)) \in Nat BY <2>2, FS_CardinalityType
  <2>4. j \in Upto(j) OBVIOUS
  <2>5. Cardinality(Upto(j)) # 0 BY <2>2, <2>4, FS_EmptySet
  <2> QED BY <1>1, <2>1, <2>2, <2>3, <2>5
<1>3. ASSUME NEW i \in kept, NEW j \in kept, i < j
      PROVE  Cardinality(Upto(i)) < Cardinality(Upto(j))
  <2>1. Upto(i) \in SUBSET Upto(j)
    <3>1. \A g \in kept : g \in Nat OBVIOUS
    <3>2. \A g \in kept : g <= i => g <= j BY <1>3, <3>1
    <3> QED BY <3>2
  <2>2. j \in Upto(j) /\ j \notin Upto(i) BY <1>3
  <2>3. /\ Cardinality(Upto(i)) <= Cardinality(Upto(j))
        /\ Cardinality(Upto(i)) # Cardinality(Upto(j))
    BY <1>2, <2>1, <2>2, FS_Subset
  <2> QED BY <1>1, <1>2, <2>3
<1>4. ASSUME NEW i \in kept, NEW j \in kept, Cardinality(Upto(i)) = Cardinality(Upto(j))
      PROVE  i = j
  <2>1. Cardinality(Upto(i)) \in Nat /\ i \in Nat /\ j \in Nat BY <1>1, <1>2
  <2>2. ~(i < j) /\ ~(j < i) BY <1>3, <1>4, <2>1
  <2> QED BY <2>1, <2>2
<1>5. ASSUME NEW i \in 1 .. Cardinality(kept) PROVE \E j \in kept : Cardinality(Upto(j)) = i
  <2> DEFINE f == [j \in kept |-> Cardinality(Upto(j))]
             places == 1 .. Cardinality(kept)
  <2>1. f \in Injection(kept, places)
    <3>1. f \in [kept -> places] BY <1>2
    <3>2. \A a, b \in kept : f[a] = f[b] => a = b BY <1>4
    <3> QED BY <3>1, <3>2 DEF Injection, IsInjective
  <2>2. IsFiniteSet(places) /\ Cardinality(places) = Cardinality(kept) BY <1>1, FS_Interval
  <2>3. f \in Surjection(kept, places) BY <2>1, <2>2, FS_Injection
  <2>4. PICK j \in kept : f[j] = i BY <2>3 DEF Surjection
  <2> QED BY <2>4
<1> QED BY <1>1, <1>2, <1>4, <1>5 DEF Compacted

LEMMA ClearInv == TableInv /\ ClearFinished => TableInv'
<1> SUFFICES ASSUME TableInv, ClearFinished PROVE TableInv' OBVIOUS
<1> DEFINE kept == {rows[k] : k \in DOMAIN rows}
           n == Cardinality(kept)
           Place(j) == Compacted(j, kept)
<1>1. /\ table \in Seq(Rows) /\ Len(table) \in Nat
      /\ kept \in SUBSET (1 .. Len(table))
  BY DEF TableInv, TableType
<1>2. /\ n \in Nat
      /\ \A j \in kept : Place(j) \in 1 .. n
      /\ \A i, j \in kept : Place(i) = Place(j) => i = j
      /\ \A i \in 1 .. n : \E j \in kept : Place(j) = i
  BY <1>1, PlacesInOrder
<1>3. /\ table' = [i \in 1 .. n |-> table[CHOOSE j \in kept : Place(j) = i]]
      /\ rows' = [k \in DOMAIN rows |-> Place(rows[k])]
      /\ UNCHANGED <<live, issued, total>>
  BY DEF ClearFinished, Compacted
<1> HIDE DEF Place, n
<1>4. ASSUME NEW j \in kept PROVE table'[Place(j)] = table[j]
  <2>1. Place(j) \in 1 .. n BY <1>2
  <2>2. (CHOOSE i \in kept : Place(i) = Place(j)) = j BY <1>2
  <2> QED BY <1>3, <2>1, <2>2
<1>5. ASSUME NEW i \in 1 .. n PROVE \E j \in kept : Place(j) = i /\ table'[i] = table[j]
  <2>1. PICK j \in kept : Place(j) = i BY <1>2
  <2> QED BY <1>4, <2>1
<1>6. table' \in Seq(Rows) /\ Len(table') = n
  <2>1. \A i \in 1 .. n : table'[i] \in Rows BY <1>1, <1>5
  <2> QED BY <1>2, <1>3, <2>1
<1>7. /\ DOMAIN rows' = DOMAIN rows
      /\ \A k \in DOMAIN rows : rows[k] \in kept /\ rows'[k] = Place(rows[k])
  BY <1>3
<1> HIDE DEF kept
<1>8. TableType'
  <2>1. \A k \in DOMAIN rows' : rows'[k] \in 1 .. Len(table') BY <1>2, <1>6, <1>7
  <2> QED BY <1>3, <1>6, <1>7, <2>1 DEF TableInv, TableType
<1>9. IdsGiven' BY <1>3 DEF TableInv, IdsGiven
<1>10. RowsOwned'
  <2>1. \A k \in DOMAIN rows' : \E t \in live'[k[1]] : k = Key(k[1], t)
    BY <1>3, <1>7 DEF TableInv, RowsOwned
  <2>2. ASSUME NEW k \in DOMAIN rows', NEW l \in DOMAIN rows', rows'[k] = rows'[l] PROVE k = l
    <3>1. rows[k] = rows[l] BY <1>2, <1>7, <2>2
    <3> QED BY <1>7, <3>1 DEF TableInv, RowsOwned
  <2>3. ASSUME NEW i \in 1 .. Len(table') PROVE \E k \in DOMAIN rows' : rows'[k] = i
    <3>1. PICK j \in kept : Place(j) = i BY <1>2, <1>6
    <3>2. PICK k \in DOMAIN rows : rows[k] = j BY <3>1 DEF kept
    <3> QED BY <1>7, <3>1, <3>2
  <2> QED BY <2>1, <2>2, <2>3 DEF RowsOwned, Key
<1>11. LiveShown'
  <2> SUFFICES ASSUME NEW r \in Addresses, NEW u \in live[r]
               PROVE  /\ Key(r, u) \in DOMAIN rows'
                      /\ table'[rows'[Key(r, u)]].transfer = u.number
                      /\ table'[rows'[Key(r, u)]].status \in Active
    BY <1>3 DEF LiveShown, Key
  <2>1. Key(r, u) \in DOMAIN rows BY DEF TableInv, LiveShown
  <2>2. table'[rows'[Key(r, u)]] = table[rows[Key(r, u)]] BY <1>4, <1>7, <2>1
  <2> QED BY <1>7, <2>1, <2>2 DEF TableInv, LiveShown
<1> QED BY <1>8, <1>9, <1>10, <1>11 DEF TableInv

LEMMA TableStep == TableInv /\ [TableNext]_tableVars => TableInv'
<1> SUFFICES ASSUME TableInv, [TableNext]_tableVars PROVE TableInv' OBVIOUS
<1>1. ASSUME NEW s \in Addresses, AttachSession(s) PROVE TableInv'
  <2>1. /\ UNCHANGED <<table, rows, live, total>> /\ issued \in [Addresses -> Nat]
        /\ issued' = [issued EXCEPT ![s] = 1] /\ issued[s] = 0
    BY <1>1 DEF AttachSession, TableInv, TableType
  <2>2. TableType' BY <2>1 DEF TableInv, TableType
  <2>3. IdsGiven'
    <3>1. ASSUME NEW r \in Addresses, NEW t \in live[r] PROVE t.id < issued'[r]
      <4>1. t.id \in Nat /\ t.id < issued[r] BY DEF TableInv, IdsGiven, TableType, Transfers
      <4>2. CASE r = s BY <2>1, <4>1, <4>2
      <4>3. CASE r # s BY <2>1, <4>1, <4>3
      <4> QED BY <4>2, <4>3
    <3> QED BY <2>1, <3>1 DEF TableInv, IdsGiven
  <2>4. RowsOwned' /\ LiveShown' BY <2>1 DEF TableInv, RowsOwned, LiveShown, Key
  <2> QED BY <2>2, <2>3, <2>4 DEF TableInv
<1>2. CASE UNCHANGED tableVars
  <2>1. TableType' /\ IdsGiven' BY <1>2 DEF tableVars, TableInv, TableType, IdsGiven
  <2>2. RowsOwned' /\ LiveShown' BY <1>2 DEF tableVars, TableInv, RowsOwned, LiveShown, Key
  <2> QED BY <2>1, <2>2 DEF TableInv
<1> QED BY <1>1, <1>2, QueuedInv, ProgressInv, FinishedInv, ForgetInv, ClearInv DEF TableNext

-----------------------------------------------------------------------------

\* Each row of the transfer list shows the transfer it was made for, through
\* rows that are removed above it and addresses that are used again.
THEOREM RowsStayTrue == TableSpec => []RowsTrue
<1>1. TableInv => RowsTrue
  <2> SUFFICES ASSUME TableInv PROVE RowsTrue OBVIOUS
  <2>1. DOMAIN table = 1 .. Len(table) BY DEF TableInv, TableType
  <2>2. ASSUME NEW s \in Addresses, NEW t \in live[s]
        PROVE  /\ Key(s, t) \in DOMAIN rows /\ rows[Key(s, t)] \in DOMAIN table
               /\ table[rows[Key(s, t)]].transfer = t.number
               /\ table[rows[Key(s, t)]].status \in {"Queued", "Transferring"}
    BY <2>1 DEF TableInv, TableType, LiveShown, Active
  <2>3. ASSUME NEW i \in DOMAIN table, table[i].status \in {"Queued", "Transferring"}
        PROVE  \E s \in Addresses : \E t \in live[s] : table[i].transfer = t.number
    <3>1. PICK k \in DOMAIN rows : rows[k] = i BY <2>1, <2>3 DEF TableInv, RowsOwned, Active
    <3>2. PICK t \in live[k[1]] : k = Key(k[1], t) BY <3>1 DEF TableInv, RowsOwned
    <3>3. k[1] \in Addresses BY <3>1 DEF TableInv, TableType
    <3>4. table[i].transfer = t.number BY <3>1, <3>2, <3>3 DEF TableInv, LiveShown
    <3> QED BY <3>2, <3>3, <3>4
  <2> QED BY <2>2, <2>3 DEF RowsTrue
<1> QED BY <1>1, TableStarts, TableStep, PTL DEF TableSpec

-----------------------------------------------------------------------------
(* The browser of remote files.                                            *)

Asked == [ask : {"list", "operation", "sudo", "walk"}, dir : Dirs, copy : Nat]

\* The walks that the session still owes.
WalksIn(queue) == {i \in 1 .. Len(queue) : queue[i].ask = "walk"}
NoWalkOf(queue, c) == \A i \in 1 .. Len(queue) : queue[i].ask = "walk" => queue[i].copy # c

BrowserTypes ==
    /\ requests \in Seq(Asked) /\ path \in Dirs
    /\ history \in Seq(Dirs) /\ histPos \in 1 .. Len(history)
    /\ underWay \subseteq [id : Nat, copy : Nat] /\ files \in Nat
    /\ pendingDirs \in Nat /\ copies \in Nat /\ onReady \in 0 .. copies
    /\ handed \subseteq 1 .. copies

\* Transfers are told apart by their numbers, and belong to copies begun.
TransfersKnown ==
    \A t \in underWay :
        /\ t.id <= files /\ t.copy <= copies
        /\ \A u \in underWay : u.id = t.id => u = t

\* What is under way for a copy is what m_tempBatch and m_tempPendingDirs count.
Counts(c) ==
    /\ \A t \in underWay : t.copy = c => t.id \in batch
    /\ Cardinality(WalksIn(requests)) = pendingDirs

WalksKnown == \A c \in Nat : c > copies => NoWalkOf(requests, c)

NothingOwed(c) == (\A t \in underWay : t.copy # c) /\ NoWalkOf(requests, c)

BrowserInv ==
    /\ BrowserTypes /\ TransfersKnown /\ WalksKnown
    /\ onReady # 0 /\ onReady \notin overtaken => Counts(onReady)
    /\ \A c \in handed \ overtaken : NothingOwed(c)

LEMMA OwedIs ==
    ASSUME requests \in Seq(Asked), NEW c PROVE Browser!Owed(c) = {} <=> NothingOwed(c)
<1>1. DOMAIN requests = 1 .. Len(requests) OBVIOUS
<1> QED BY <1>1 DEF Browser!Owed, NothingOwed, NoWalkOf

LEMMA WalksCounted ==
    ASSUME NEW queue \in Seq(Asked)
    PROVE  /\ IsFiniteSet(WalksIn(queue)) /\ Cardinality(WalksIn(queue)) \in Nat
           /\ Cardinality(WalksIn(queue)) = 0 <=> \A i \in 1 .. Len(queue) : queue[i].ask # "walk"
<1>1. Len(queue) \in Int OBVIOUS
<1>2. IsFiniteSet(1 .. Len(queue)) BY <1>1, FS_Interval
<1>3. WalksIn(queue) \in SUBSET (1 .. Len(queue)) BY DEF WalksIn
<1>4. IsFiniteSet(WalksIn(queue)) BY <1>2, <1>3, FS_Subset
<1>5. Cardinality(WalksIn(queue)) = 0 <=> WalksIn(queue) = {} BY <1>4, FS_EmptySet
<1> QED BY <1>4, <1>5, FS_CardinalityType DEF WalksIn

LEMMA WalksAppended ==
    ASSUME NEW queue \in Seq(Asked), NEW r \in Asked
    PROVE  /\ queue \o <<r>> = Append(queue, r) /\ Append(queue, r) \in Seq(Asked)
           /\ r.ask = "walk" =>
                /\ Cardinality(WalksIn(Append(queue, r))) = Cardinality(WalksIn(queue)) + 1
                /\ \A c : NoWalkOf(Append(queue, r), c) <=> NoWalkOf(queue, c) /\ r.copy # c
           /\ r.ask # "walk" =>
                /\ Cardinality(WalksIn(Append(queue, r))) = Cardinality(WalksIn(queue))
                /\ \A c : NoWalkOf(Append(queue, r), c) <=> NoWalkOf(queue, c)
<1> DEFINE n == Len(queue)  q == Append(queue, r)
<1>1. /\ q \in Seq(Asked) /\ Len(q) = n + 1 /\ n \in Nat /\ q[n + 1] = r
      /\ \A i \in 1 .. n : q[i] = queue[i]
  OBVIOUS
<1>2. queue \o <<r>> = q OBVIOUS
<1> HIDE DEF q
<1>3. \A i \in 1 .. n + 1 : i \in 1 .. n \/ i = n + 1 BY <1>1
<1>4. IsFiniteSet(WalksIn(queue)) /\ Cardinality(WalksIn(queue)) \in Nat BY WalksCounted
<1>5. n + 1 \notin WalksIn(queue) BY <1>1 DEF WalksIn
<1>6. CASE r.ask = "walk"
  <2>1. WalksIn(q) = WalksIn(queue) \cup {n + 1} BY <1>1, <1>3, <1>6 DEF WalksIn
  <2>2. Cardinality(WalksIn(q)) = Cardinality(WalksIn(queue)) + 1 BY <1>4, <1>5, <2>1, FS_AddElement
  <2>3. \A c : NoWalkOf(q, c) <=> NoWalkOf(queue, c) /\ r.copy # c BY <1>1, <1>3, <1>6 DEF NoWalkOf
  <2> QED BY <1>1, <1>2, <1>6, <2>2, <2>3 DEF q
<1>7. CASE r.ask # "walk"
  <2>1. WalksIn(q) = WalksIn(queue) BY <1>1, <1>3, <1>7 DEF WalksIn
  <2>3. \A c : NoWalkOf(q, c) <=> NoWalkOf(queue, c) BY <1>1, <1>3, <1>7 DEF NoWalkOf
  <2> QED BY <1>1, <1>2, <1>4, <1>7, <2>1, <2>3 DEF q
<1> QED BY <1>6, <1>7

LEMMA WalksAfterHead ==
    ASSUME NEW queue \in Seq(Asked), queue # << >>
    PROVE  /\ Tail(queue) \in Seq(Asked) /\ Head(queue) \in Asked
           /\ Head(queue).ask = "walk" =>
                /\ Cardinality(WalksIn(queue)) = Cardinality(WalksIn(Tail(queue))) + 1
                /\ \A c : NoWalkOf(queue, c) <=> NoWalkOf(Tail(queue), c) /\ Head(queue).copy # c
           /\ Head(queue).ask # "walk" =>
                /\ Cardinality(WalksIn(queue)) = Cardinality(WalksIn(Tail(queue)))
                /\ \A c : NoWalkOf(queue, c) <=> NoWalkOf(Tail(queue), c)
<1> DEFINE n == Len(queue)  q == Tail(queue)  r == Head(queue)
<1>1. /\ q \in Seq(Asked) /\ n \in Nat /\ n > 0 /\ Len(q) = n - 1
      /\ r = queue[1] /\ r \in Asked /\ \A i \in 1 .. n - 1 : q[i] = queue[i + 1]
  OBVIOUS
<1> HIDE DEF q, r
<1>2. /\ IsFiniteSet(WalksIn(queue)) /\ IsFiniteSet(WalksIn(q))
      /\ Cardinality(WalksIn(queue)) \in Nat /\ Cardinality(WalksIn(q)) \in Nat
  BY <1>1, WalksCounted
<1> DEFINE later == WalksIn(queue) \ {1}
           moved == [i \in WalksIn(q) |-> i + 1]
<1>3. ASSUME NEW i \in 1 .. n, i # 1 PROVE i - 1 \in 1 .. n - 1 /\ q[i - 1] = queue[i]
  <2>1. i - 1 \in 1 .. n - 1 /\ (i - 1) + 1 = i BY <1>1, <1>3
  <2> QED BY <1>1, <2>1
<1>4. ASSUME NEW i \in WalksIn(q) PROVE i + 1 \in later /\ i \in Nat
  <2>1. i \in 1 .. n - 1 /\ q[i].ask = "walk" BY <1>1 DEF WalksIn
  <2>2. i + 1 \in 1 .. n /\ i + 1 # 1 BY <1>1, <2>1
  <2> QED BY <1>1, <2>1, <2>2 DEF WalksIn
<1>5. ASSUME NEW i \in later PROVE i - 1 \in WalksIn(q) /\ (i - 1) + 1 = i
  <2>1. i \in 1 .. n /\ i # 1 /\ queue[i].ask = "walk" BY DEF WalksIn
  <2>2. i - 1 \in 1 .. n - 1 /\ q[i - 1] = queue[i] BY <1>3, <2>1
  <2> QED BY <1>1, <2>1, <2>2 DEF WalksIn
<1>6. moved \in Bijection(WalksIn(q), later)
  <2> HIDE DEF later
  <2>1. moved \in [WalksIn(q) -> later] BY <1>4
  <2>2. \A i, j \in WalksIn(q) : moved[i] = moved[j] => i = j BY <1>4
  <2>3. \A i \in later : moved[i - 1] = i BY <1>5
  <2>4. \A i \in later : \E j \in WalksIn(q) : moved[j] = i BY <1>5, <2>3
  <2> HIDE DEF moved
  <2> QED BY <2>1, <2>2, <2>4 DEF Bijection, Injection, Surjection, IsInjective
<1>7. Cardinality(later) = Cardinality(WalksIn(q))
  <2> HIDE DEF moved, later
  <2> QED BY <1>2, <1>6, FS_Bijection DEF ExistsBijection
<1>8. Cardinality(later) = Cardinality(WalksIn(queue)) - (IF r.ask = "walk" THEN 1 ELSE 0)
  <2>1. 1 \in WalksIn(queue) <=> r.ask = "walk" BY <1>1 DEF WalksIn
  <2>2. Cardinality(later) = IF 1 \in WalksIn(queue) THEN Cardinality(WalksIn(queue)) - 1
                                                     ELSE Cardinality(WalksIn(queue))
    BY <1>2, FS_RemoveElement
  <2> HIDE DEF later
  <2> QED BY <1>2, <2>1, <2>2
<1>9. \A c : NoWalkOf(queue, c) <=> NoWalkOf(q, c) /\ (r.ask = "walk" => r.copy # c)
  <2> SUFFICES ASSUME NEW c PROVE NoWalkOf(queue, c) <=> NoWalkOf(q, c) /\ (r.ask = "walk" => r.copy # c)
    OBVIOUS
  <2>1. ASSUME NoWalkOf(queue, c) PROVE NoWalkOf(q, c) /\ (r.ask = "walk" => r.copy # c)
    <3>1. \A i \in 1 .. n - 1 : i + 1 \in 1 .. n BY <1>1
    <3> QED BY <1>1, <2>1, <3>1 DEF NoWalkOf
  <2>2. ASSUME NoWalkOf(q, c), r.ask = "walk" => r.copy # c PROVE NoWalkOf(queue, c)
    BY <1>1, <1>3, <2>2 DEF NoWalkOf
  <2> QED BY <2>1, <2>2
<1> HIDE DEF later
<1> QED BY <1>1, <1>2, <1>7, <1>8, <1>9 DEF q, r

LEMMA BrowserStarts == Browser!Init => BrowserInv
<1> SUFFICES ASSUME Browser!Init PROVE BrowserInv OBVIOUS
<1>1. Dirs # {} BY BoundsAssumption DEF BoundsAssumption
<1>2. path \in Dirs /\ history = <<path>> /\ histPos = 1
  BY <1>1 DEF Browser!Init, Browser!Home
<1>3. /\ requests = <<[ask |-> "list", dir |-> path, copy |-> 0]>> /\ underWay = {} /\ files = 0
      /\ pendingDirs = 0 /\ onReady = 0 /\ copies = 0 /\ handed = {}
  BY DEF Browser!Init
<1>4. [ask |-> "list", dir |-> path, copy |-> 0] \in Asked BY <1>2 DEF Asked
<1>5. requests \in Seq(Asked) BY <1>3, <1>4
<1>6. history \in Seq(Dirs) /\ histPos \in 1 .. Len(history) BY <1>2
<1>7. BrowserTypes BY <1>2, <1>3, <1>5, <1>6 DEF BrowserTypes
<1>8. Len(requests) = 1 /\ requests[1].ask = "list" BY <1>3
<1>9. WalksKnown BY <1>8 DEF WalksKnown, NoWalkOf
<1> QED BY <1>3, <1>7, <1>9 DEF BrowserInv, TransfersKnown

LEMMA SameCardinality == ASSUME NEW S PROVE Browser!Cardinality(S) = Cardinality(S)
BY DEF Browser!Cardinality, Cardinality

\* Transfers are begun with new numbers.
LEMMA BegunAre ==
    ASSUME BrowserTypes, TransfersKnown, NEW n \in 0 .. 2, NEW c \in Nat, c <= copies',
           NEW begun, begun = Browser!Begun(n, c), Browser!Enqueue(begun),
           copies' \in Nat, copies <= copies'
    PROVE  /\ TransfersKnown' /\ files' \in Nat /\ underWay' \subseteq [id : Nat, copy : Nat]
           /\ underWay' = underWay \union begun
           /\ \A t \in begun : t.copy = c /\ t.id \in Browser!Ids(begun)
<1>1. files \in Nat /\ underWay \subseteq [id : Nat, copy : Nat] BY DEF BrowserTypes
<1>2. /\ files' = files + Cardinality(begun) /\ underWay' = underWay \union begun
  BY SameCardinality DEF Browser!Enqueue
<1>3. begun = {[id |-> files + i, copy |-> c] : i \in 1 .. n}
  BY DEF Browser!Begun, Browser!Transfer
<1>4. Cardinality(begun) = n
  <2>1. 1 .. n \in SUBSET {1, 2} /\ n \in Int OBVIOUS
  <2>2. IsFiniteSet(1 .. n) /\ Cardinality(1 .. n) = n
    <3>1. 1 \in Int /\ n \in Int /\ (IF 1 > n THEN 0 ELSE n - 1 + 1) = n BY <2>1
    <3> QED BY <3>1, FS_Interval
  <2> DEFINE f == [i \in 1 .. n |-> [id |-> files + i, copy |-> c]]
  <2>3. \A i \in 1 .. n : f[i] = [id |-> files + i, copy |-> c] /\ f[i].id = files + i OBVIOUS
  <2>4. f \in [1 .. n -> begun] BY <1>3
  <2>5. \A t \in begun : \E i \in 1 .. n : f[i] = t BY <1>3
  <2>6. \A i, j \in 1 .. n : f[i] = f[j] => i = j
    <3> HIDE DEF f
    <3> SUFFICES ASSUME NEW i \in 1 .. n, NEW j \in 1 .. n, f[i] = f[j] PROVE i = j OBVIOUS
    <3>1. files + i = files + j BY <2>3
    <3> QED BY <1>1, <3>1
  <2> HIDE DEF f
  <2>7. f \in Bijection(1 .. n, begun)
    BY <2>4, <2>5, <2>6 DEF Bijection, Injection, Surjection, IsInjective
  <2> QED BY <2>2, <2>7, FS_Bijection DEF ExistsBijection
<1>5. files' = files + n BY <1>2, <1>4
<1>6. ASSUME NEW t \in begun
      PROVE  /\ t \in [id : Nat, copy : Nat] /\ t.id > files /\ t.id <= files' /\ t.copy = c
             /\ \A u \in begun : u.id = t.id => u = t
  <2>1. PICK i \in 1 .. n : t = [id |-> files + i, copy |-> c] BY <1>3
  <2>2. \A u \in begun : u.copy = c /\ u = [id |-> u.id, copy |-> c] BY <1>3
  <2>3. t.id = files + i /\ t.copy = c BY <2>1
  <2> QED BY <1>1, <1>5, <2>1, <2>2, <2>3
<1>7. TransfersKnown'
  <2> SUFFICES ASSUME NEW t \in underWay'
               PROVE  t.id <= files' /\ t.copy <= copies' /\ \A u \in underWay' : u.id = t.id => u = t
    BY DEF TransfersKnown
  <2>1. CASE t \in underWay
    <3>1. t.id \in Nat /\ t.copy \in Nat /\ t.id <= files /\ t.copy <= copies BY <1>1, <2>1 DEF TransfersKnown
    <3>2. \A u \in begun : u.id # t.id BY <1>1, <1>6, <3>1
    <3>3. copies \in Nat BY DEF BrowserTypes
    <3> QED BY <1>1, <1>2, <1>5, <2>1, <3>1, <3>2, <3>3 DEF TransfersKnown
  <2>2. CASE t \in begun
    <3>1. t.id > files /\ t.id \in Nat BY <1>6, <2>2
    <3>2. \A u \in underWay : u.id <= files /\ u.id \in Nat BY <1>1 DEF TransfersKnown
    <3>3. \A u \in underWay : u.id # t.id BY <1>1, <3>1, <3>2
    <3> QED BY <1>2, <1>6, <2>2, <3>3
  <2> QED BY <1>2, <2>1, <2>2
<1>8. underWay' \subseteq [id : Nat, copy : Nat] BY <1>1, <1>2, <1>6
<1>9. files' \in Nat BY <1>1, <1>5
<1> QED BY <1>2, <1>6, <1>7, <1>8, <1>9 DEF Browser!Ids

LEMMA BrowserFinish ==
    ASSUME Browser!MaybeFinishTemp, requests' \in Seq(Asked), pendingDirs' \in Nat,
           overtaken' = overtaken, copies' = copies, copies \in Nat, onReady \in 0 .. copies,
           handed \subseteq 1 .. copies, NEW c, c = onReady,
           c # 0 /\ c \notin overtaken => Counts(c)',
           \A d \in handed \ overtaken : NothingOwed(d)'
    PROVE  /\ onReady' \in 0 .. copies' /\ handed' \subseteq 1 .. copies'
           /\ onReady' # 0 /\ onReady' \notin overtaken' => Counts(onReady)'
           /\ \A d \in handed' \ overtaken' : NothingOwed(d)'
<1>1. CASE onReady # 0 /\ Browser!Ready(batch', pendingDirs')
  <2>1. /\ onReady' = 0 /\ handed' = handed \union {c} /\ batch' = {} /\ pendingDirs' = 0
        /\ c \in 1 .. copies
    BY <1>1 DEF Browser!MaybeFinishTemp, Browser!Ready
  <2>2. c \notin overtaken => NothingOwed(c)'
    <3> SUFFICES ASSUME c \notin overtaken PROVE NothingOwed(c)' OBVIOUS
    <3>1. Counts(c)' BY <2>1
    <3>2. \A t \in underWay' : t.copy # c BY <2>1, <3>1 DEF Counts
    <3>3. Cardinality(WalksIn(requests')) = 0 BY <2>1, <3>1 DEF Counts
    <3>4. \A i \in 1 .. Len(requests') : requests'[i].ask # "walk" BY <3>3, WalksCounted
    <3> QED BY <3>2, <3>4 DEF NothingOwed, NoWalkOf
  <2> QED BY <2>1, <2>2
<1>2. CASE ~(onReady # 0 /\ Browser!Ready(batch', pendingDirs'))
  <2>1. onReady' = onReady /\ handed' = handed BY <1>2 DEF Browser!MaybeFinishTemp
  <2>2. onReady' = c BY <2>1
  <2>3. c # 0 /\ c \notin overtaken => Counts(onReady)' BY <2>2 DEF Counts
  <2> QED BY <2>1, <2>2, <2>3
<1> QED BY <1>1, <1>2

\* What asks the session for more, or takes an answer other than a walk's, and
\* leaves the copies alone.
LEMMA BrowserAsks ==
    ASSUME BrowserInv, requests' \in Seq(Asked),
           Cardinality(WalksIn(requests')) = Cardinality(WalksIn(requests)),
           \A c : NoWalkOf(requests, c) => NoWalkOf(requests', c),
           path' \in Dirs, history' \in Seq(Dirs), histPos' \in 1 .. Len(history'),
           underWay' \subseteq underWay, UNCHANGED <<files, batch, pendingDirs, onReady, copies, overtaken, handed>>
    PROVE  BrowserInv'
<1>1. BrowserTypes' BY DEF BrowserInv, BrowserTypes
<1>2. TransfersKnown' /\ WalksKnown' BY DEF BrowserInv, TransfersKnown, WalksKnown
<1>3. \A c : Counts(c) => Counts(c)' BY DEF Counts
<1>4. \A c : NothingOwed(c) => NothingOwed(c)' BY DEF NothingOwed
<1>5. onReady' # 0 /\ onReady' \notin overtaken' => Counts(onReady)'
  <2>1. PICK c : c = onReady OBVIOUS
  <2>2. c # 0 /\ c \notin overtaken => Counts(c)' BY <1>3, <2>1 DEF BrowserInv
  <2> QED BY <2>1, <2>2 DEF Counts
<1> QED BY <1>1, <1>2, <1>4, <1>5 DEF BrowserInv

LEMMA SendAdds ==
    ASSUME requests \in Seq(Asked), NEW r \in Asked, r.ask # "walk", requests' = requests \o <<r>>
    PROVE  /\ requests' \in Seq(Asked)
           /\ Cardinality(WalksIn(requests')) = Cardinality(WalksIn(requests))
           /\ \A c : NoWalkOf(requests, c) => NoWalkOf(requests', c)
<1> DEFINE q == Append(requests, r)
<1>1. /\ requests \o <<r>> = q /\ q \in Seq(Asked)
      /\ Cardinality(WalksIn(q)) = Cardinality(WalksIn(requests))
      /\ \A c : NoWalkOf(q, c) <=> NoWalkOf(requests, c)
  BY WalksAppended
<1> HIDE DEF q
<1>3. requests' = q BY <1>1
<1> QED BY <1>1, <1>3

LEMMA RequestIs ==
    ASSUME NEW ask \in {"list", "operation", "sudo", "walk"}, NEW dir \in Dirs, NEW c \in Nat
    PROVE  /\ Browser!Request(ask, dir, c) \in Asked
           /\ Browser!Request(ask, dir, c).ask = ask /\ Browser!Request(ask, dir, c).copy = c
BY DEF Browser!Request, Asked

LEMMA BrowserGoes ==
    ASSUME BrowserInv,
           \/ \E dir \in Dirs : Browser!NavigateTo(dir)
           \/ Browser!GoBackOrForward \/ Browser!Refresh
           \/ Browser!AskFirst("operation") \/ Browser!AskFirst("sudo") \/ Browser!Answered
           \/ UNCHANGED Browser!browserVars
    PROVE  BrowserInv'
<1>1. BrowserTypes BY DEF BrowserInv
<1>2. UNCHANGED <<underWay, files, batch, pendingDirs, onReady, copies, overtaken, handed>>
  BY DEF Browser!NavigateTo, Browser!GoBackOrForward, Browser!Refresh, Browser!AskFirst,
         Browser!Answered, Browser!browserVars, Browser!tempVars, Browser!historyVars
<1>3. path' = path
  BY DEF Browser!NavigateTo, Browser!GoBackOrForward, Browser!Refresh, Browser!AskFirst,
         Browser!Answered, Browser!browserVars, Browser!navVars
<1>4. history' \in Seq(Dirs) /\ histPos' \in 1 .. Len(history')
  <2>1. ASSUME NEW dir \in Dirs, Browser!NavigateTo(dir) PROVE history' \in Seq(Dirs) /\ histPos' \in 1 .. Len(history')
    <3>1. histPos \in Nat /\ histPos <= Len(history) /\ histPos >= 1 /\ Len(history) \in Nat /\ history \in Seq(Dirs)
      BY <1>1 DEF BrowserTypes
    <3> DEFINE kept == SubSeq(history, 1, histPos)
    <3>2. kept \in Seq(Dirs) /\ Len(kept) = histPos BY <3>1
    <3> HIDE DEF kept
    <3>3. Append(kept, dir) \in Seq(Dirs) /\ Len(Append(kept, dir)) = histPos + 1 BY <3>2
    <3>4. history' = Append(kept, dir) /\ histPos' = histPos + 1 BY <2>1 DEF Browser!NavigateTo, kept
    <3> QED BY <3>1, <3>3, <3>4
  <2>2. CASE Browser!GoBackOrForward
    <3>1. history' = history /\ histPos' \in DOMAIN history BY <2>2 DEF Browser!GoBackOrForward
    <3> QED BY <1>1, <3>1 DEF BrowserTypes
  <2>3. CASE ~(\E dir \in Dirs : Browser!NavigateTo(dir)) /\ ~Browser!GoBackOrForward
    <3>1. history' = history /\ histPos' = histPos
      BY <2>3 DEF Browser!Refresh, Browser!AskFirst, Browser!Answered, Browser!browserVars, Browser!navVars
    <3> QED BY <1>1, <3>1 DEF BrowserTypes
  <2> QED BY <2>1, <2>2, <2>3
<1>5. \/ requests' = requests
      \/ \E r \in Asked : r.ask # "walk" /\ requests' = requests \o <<r>>
  <2>1. ASSUME NEW ask \in {"list", "operation", "sudo"}, NEW dir \in Dirs,
               requests' = requests \o <<Browser!Request(ask, dir, 0)>>
        PROVE  \E r \in Asked : r.ask # "walk" /\ requests' = requests \o <<r>>
    BY <2>1, RequestIs
  <2>2. path \in Dirs /\ \A i \in DOMAIN history : history[i] \in Dirs BY <1>1 DEF BrowserTypes
  <2>3. CASE Browser!Answered
    <3>1. question \in {"operation", "sudo"}
          /\ (requests' = requests \o <<Browser!Request(question, path, 0)>> \/ requests' = requests)
      BY <2>3 DEF Browser!Answered, Browser!Send
    <3> QED BY <2>1, <2>2, <3>1
  <2>4. CASE Browser!GoBackOrForward
    <3>1. history' = history /\ histPos' \in DOMAIN history
          /\ requests' = requests \o <<Browser!Request("list", history[histPos'], 0)>>
      BY <2>4 DEF Browser!GoBackOrForward, Browser!Send, Browser!List
    <3> QED BY <2>1, <2>2, <3>1
  <2>5. ASSUME NEW dir \in Dirs, Browser!NavigateTo(dir)
        PROVE  \E r \in Asked : r.ask # "walk" /\ requests' = requests \o <<r>>
    BY <2>1, <2>5 DEF Browser!NavigateTo, Browser!Send, Browser!List
  <2>6. CASE Browser!Refresh
    BY <2>1, <2>2, <2>6 DEF Browser!Refresh, Browser!Send, Browser!List
  <2>7. CASE Browser!AskFirst("operation") \/ Browser!AskFirst("sudo") \/ UNCHANGED Browser!browserVars
    BY <2>7 DEF Browser!AskFirst, Browser!browserVars
  <2> QED BY <2>3, <2>4, <2>5, <2>6, <2>7
<1>6. requests \in Seq(Asked) /\ path' \in Dirs BY <1>1, <1>3 DEF BrowserTypes
<1>7. /\ requests' \in Seq(Asked)
      /\ Cardinality(WalksIn(requests')) = Cardinality(WalksIn(requests))
      /\ \A c : NoWalkOf(requests, c) => NoWalkOf(requests', c)
  BY <1>5, <1>6, SendAdds
<1> QED BY <1>2, <1>4, <1>6, <1>7, BrowserAsks

LEMMA BrowserEnqueues ==
    ASSUME BrowserInv, Browser!UploadOrDownload \/ Browser!DownloadSelectedToTemp
    PROVE  BrowserInv'
<1>1. BrowserTypes /\ TransfersKnown BY DEF BrowserInv
<1>2. /\ copies \in Nat /\ requests \in Seq(Asked) /\ onReady \in 0 .. copies /\ handed \subseteq 1 .. copies
      /\ pendingDirs \in Nat
  BY <1>1 DEF BrowserTypes
<1>3. CASE Browser!UploadOrDownload
  <2> DEFINE begun == Browser!Begun(1, 0)
  <2>1. /\ Browser!Enqueue(begun)
        /\ UNCHANGED <<path, history, histPos, requests, batch, pendingDirs, onReady, copies, overtaken, handed>>
    BY <1>3 DEF Browser!UploadOrDownload, Browser!navVars, Browser!tempVars, Browser!historyVars
  <2> HIDE DEF begun
  <2>2. /\ TransfersKnown' /\ files' \in Nat /\ underWay' \subseteq [id : Nat, copy : Nat]
        /\ underWay' = underWay \union begun /\ \A t \in begun : t.copy = 0
    BY <1>1, <1>2, <2>1, BegunAre DEF begun
  <2>3. BrowserTypes' BY <1>1, <2>1, <2>2 DEF BrowserTypes
  <2>4. \A c \in 1 .. copies : (Counts(c) => Counts(c)') /\ (NothingOwed(c) => NothingOwed(c)')
    BY <1>2, <2>1, <2>2 DEF Counts, NothingOwed
  <2>5. onReady' # 0 /\ onReady' \notin overtaken' => Counts(onReady)'
    <3>1. PICK c : c = onReady OBVIOUS
    <3>2. c # 0 /\ c \notin overtaken => Counts(c)' BY <1>2, <2>4, <3>1 DEF BrowserInv
    <3> QED BY <2>1, <3>1, <3>2 DEF Counts
  <2>6. \A c \in handed' \ overtaken' : NothingOwed(c)' BY <1>2, <2>1, <2>4 DEF BrowserInv
  <2>7. WalksKnown' BY <2>1 DEF BrowserInv, WalksKnown
  <2> QED BY <2>2, <2>3, <2>5, <2>6, <2>7 DEF BrowserInv
<1>4. CASE Browser!DownloadSelectedToTemp
  <2>a. PICK c \in Nat : c = copies + 1 BY <1>2
  <2>1. PICK n \in 1 .. 2 :
          /\ Browser!Enqueue(Browser!Begun(n, copies'))
          /\ batch' = Browser!Ids(Browser!Begun(n, copies'))
    BY <1>4 DEF Browser!DownloadSelectedToTemp
  <2>2. /\ copies' = c /\ pendingDirs' = 0 /\ onReady' = c
        /\ UNCHANGED <<path, history, histPos, requests, handed>>
        /\ overtaken' = overtaken \union ({onReady} \ {0}) \union (IF Browser!Walking THEN {c} ELSE {})
    BY <1>4, <2>a DEF Browser!DownloadSelectedToTemp, Browser!navVars
  <2>3. PICK begun : begun = Browser!Begun(n, c) OBVIOUS
  <2>4. Browser!Enqueue(begun) /\ batch' = Browser!Ids(begun) BY <2>1, <2>2, <2>3
  <2>5. /\ TransfersKnown' /\ files' \in Nat /\ underWay' \subseteq [id : Nat, copy : Nat]
        /\ underWay' = underWay \union begun
        /\ \A t \in begun : t.copy = c /\ t.id \in Browser!Ids(begun)
    BY <1>1, <1>2, <2>a, <2>2, <2>3, <2>4, BegunAre
  <2>6. BrowserTypes' BY <1>1, <1>2, <2>a, <2>2, <2>5 DEF BrowserTypes
  <2>7. ASSUME c \notin overtaken' PROVE Counts(c)'
    <3>1. ~Browser!Walking BY <2>2, <2>7
    <3>2. \A i \in 1 .. Len(requests) : requests[i].ask # "walk"
      <4>1. DOMAIN requests = 1 .. Len(requests) BY <1>2
      <4> QED BY <3>1, <4>1 DEF Browser!Walking
    <3>3. Cardinality(WalksIn(requests')) = 0 BY <1>2, <2>2, <3>2, WalksCounted
    <3>4. \A t \in underWay : t.copy # c BY <1>2, <2>a, <1>1 DEF TransfersKnown, BrowserTypes
    <3> QED BY <2>2, <2>4, <2>5, <3>3, <3>4 DEF Counts
  <2>8. ASSUME NEW d \in handed' \ overtaken' PROVE NothingOwed(d)'
    <3>1. d \in handed \ overtaken /\ d # c BY <1>2, <2>a, <2>2
    <3>2. NothingOwed(d) BY <3>1 DEF BrowserInv
    <3> QED BY <2>2, <2>5, <3>1, <3>2 DEF NothingOwed
  <2>9. onReady' # 0 /\ onReady' \notin overtaken' => Counts(onReady)' BY <2>2, <2>7 DEF Counts
  <2>10. WalksKnown' BY <1>2, <2>a, <2>2 DEF BrowserInv, WalksKnown
  <2> QED BY <2>5, <2>6, <2>8, <2>9, <2>10 DEF BrowserInv
<1> QED BY <1>3, <1>4

LEMMA BrowserTransferEnds ==
    ASSUME BrowserInv, NEW t \in underWay, NEW end \in {"done", "failed", "cancelled"},
           Browser!OnTransferFinished(t, end)
    PROVE  BrowserInv'
<1>1. BrowserTypes /\ TransfersKnown BY DEF BrowserInv
<1>2. /\ copies \in Nat /\ requests \in Seq(Asked) /\ onReady \in 0 .. copies /\ handed \subseteq 1 .. copies
      /\ pendingDirs \in Nat /\ path \in Dirs /\ underWay \subseteq [id : Nat, copy : Nat]
  BY <1>1 DEF BrowserTypes
<1>3. underWay' = underWay \ {t} BY DEF Browser!OnTransferFinished
<1>4. CASE t.id \notin batch
  <2>1. UNCHANGED <<path, history, histPos, files, batch, pendingDirs, onReady, copies, overtaken, handed>>
    BY <1>4 DEF Browser!OnTransferFinished, Browser!navVars, Browser!tempVars, Browser!historyVars
  <2>2. requests' = requests \/ requests' = requests \o <<Browser!Request("list", path, 0)>>
    BY <1>4 DEF Browser!OnTransferFinished, Browser!List
  <2>3. Browser!Request("list", path, 0) \in Asked /\ Browser!Request("list", path, 0).ask = "list"
    BY <1>2, RequestIs
  <2>4. /\ requests' \in Seq(Asked)
        /\ Cardinality(WalksIn(requests')) = Cardinality(WalksIn(requests))
        /\ \A c : NoWalkOf(requests, c) => NoWalkOf(requests', c)
    BY <1>2, <2>2, <2>3, SendAdds
  <2>5. path' \in Dirs /\ history' \in Seq(Dirs) /\ histPos' \in 1 .. Len(history')
    BY <1>1, <2>1 DEF BrowserTypes
  <2> QED BY <1>3, <2>1, <2>4, <2>5, BrowserAsks
<1>5. CASE t.id \in batch
  <2>1. Browser!TempFinished(t, end) BY <1>5 DEF Browser!OnTransferFinished
  <2>2. /\ batch' = batch \ {t.id} /\ UNCHANGED <<path, history, histPos, files, copies, overtaken>>
    BY <2>1 DEF Browser!TempFinished, Browser!navVars
  <2>3. TransfersKnown' BY <1>1, <1>3, <2>2 DEF TransfersKnown
  <2>4. \A u \in underWay' : u \in underWay /\ u.id # t.id BY <1>1, <1>3 DEF TransfersKnown
  <2>5. \A d \in handed \ overtaken : t.copy # d BY DEF BrowserInv, NothingOwed
  <2>6. CASE Browser!FallsBack(t, end)
    <3> DEFINE r == Browser!Request("walk", path, t.copy)
    <3>1. /\ pendingDirs' = pendingDirs + 1 /\ requests' = Append(requests, r)
          /\ UNCHANGED <<onReady, handed>>
      BY <2>1, <2>6 DEF Browser!TempFinished
    <3>2. r \in Asked /\ r.ask = "walk" /\ r.copy = t.copy BY <1>2, RequestIs
    <3> HIDE DEF r
    <3>3. /\ requests' \in Seq(Asked)
          /\ Cardinality(WalksIn(requests')) = Cardinality(WalksIn(requests)) + 1
          /\ \A c : NoWalkOf(requests', c) <=> NoWalkOf(requests, c) /\ t.copy # c
      BY <1>2, <3>1, <3>2, WalksAppended
    <3>4. BrowserTypes' BY <1>1, <1>3, <2>2, <3>1, <3>3 DEF BrowserTypes
    <3>5. \A d \in handed' \ overtaken' : NothingOwed(d)'
      BY <1>3, <2>2, <2>5, <3>1, <3>3 DEF BrowserInv, NothingOwed
    <3>6. \A c : Counts(c) => Counts(c)' BY <1>3, <2>2, <2>4, <3>1, <3>3 DEF Counts
    <3>7. onReady' # 0 /\ onReady' \notin overtaken' => Counts(onReady)'
      <4>1. PICK c : c = onReady OBVIOUS
      <4>2. c # 0 /\ c \notin overtaken => Counts(c)' BY <3>6, <4>1 DEF BrowserInv
      <4> QED BY <2>2, <3>1, <4>1, <4>2 DEF Counts
    <3>8. t.copy \in Nat /\ t.copy <= copies BY <1>1, <1>2 DEF TransfersKnown
    <3>9. WalksKnown' BY <1>2, <2>2, <3>3, <3>8 DEF BrowserInv, WalksKnown
    <3> QED BY <2>3, <3>4, <3>5, <3>7, <3>9 DEF BrowserInv
  <2>7. CASE ~Browser!FallsBack(t, end)
    <3>1. Browser!MaybeFinishTemp /\ requests' = requests /\ pendingDirs' = pendingDirs
      BY <2>1, <2>7 DEF Browser!TempFinished
    <3>2. \A c : Counts(c) => Counts(c)' BY <1>3, <2>2, <2>4, <3>1 DEF Counts
    <3>3. \A d \in handed \ overtaken : NothingOwed(d)' BY <1>3, <3>1 DEF BrowserInv, NothingOwed
    <3>4. PICK c : c = onReady OBVIOUS
    <3>5. c # 0 /\ c \notin overtaken => Counts(c)' BY <3>2, <3>4 DEF BrowserInv
    <3>6. /\ onReady' \in 0 .. copies' /\ handed' \subseteq 1 .. copies'
          /\ onReady' # 0 /\ onReady' \notin overtaken' => Counts(onReady)'
          /\ \A d \in handed' \ overtaken' : NothingOwed(d)'
      BY <1>2, <2>2, <3>1, <3>3, <3>4, <3>5, BrowserFinish
    <3>7. BrowserTypes' BY <1>1, <1>3, <2>2, <3>1, <3>6 DEF BrowserTypes
    <3>8. WalksKnown' BY <2>2, <3>1 DEF BrowserInv, WalksKnown
    <3> QED BY <2>3, <3>6, <3>7, <3>8 DEF BrowserInv
  <2> QED BY <2>6, <2>7
<1> QED BY <1>4, <1>5

LEMMA BrowserAnswers ==
    ASSUME BrowserInv, NEW ok \in BOOLEAN,
           Browser!OnDirectoryListed(ok) \/ Browser!OnOperationFinished(ok)
    PROVE  BrowserInv'
<1>1. BrowserTypes BY DEF BrowserInv
<1>2. requests \in Seq(Asked) /\ path \in Dirs BY <1>1 DEF BrowserTypes
<1>3. /\ requests # << >> /\ Head(requests).ask # "walk"
      /\ UNCHANGED <<history, histPos, underWay, files, batch, pendingDirs, onReady, copies, overtaken, handed>>
  BY DEF Browser!OnDirectoryListed, Browser!OnOperationFinished, Browser!Answer, Browser!navVars,
         Browser!tempVars, Browser!historyVars
<1> DEFINE left == Tail(requests)
<1>4. /\ left \in Seq(Asked) /\ Head(requests) \in Asked
      /\ Cardinality(WalksIn(left)) = Cardinality(WalksIn(requests))
      /\ \A c : NoWalkOf(requests, c) => NoWalkOf(left, c)
  BY <1>2, <1>3, WalksAfterHead
<1>5. path' \in Dirs
  BY <1>2, <1>4 DEF Browser!OnDirectoryListed, Browser!OnOperationFinished, Browser!navVars, Asked
<1>6. requests' = left \/ requests' = left \o <<Browser!Request("list", path, 0)>>
  <2>1. left \o << >> = left BY <1>4
  <2> QED BY <2>1 DEF Browser!OnDirectoryListed, Browser!OnOperationFinished, Browser!List
<1> HIDE DEF left
<1>7. Browser!Request("list", path, 0) \in Asked /\ Browser!Request("list", path, 0).ask = "list"
  BY <1>2, RequestIs
<1>8. /\ left \o <<Browser!Request("list", path, 0)>> \in Seq(Asked)
      /\ Cardinality(WalksIn(left \o <<Browser!Request("list", path, 0)>>)) = Cardinality(WalksIn(left))
      /\ \A c : NoWalkOf(left, c) => NoWalkOf(left \o <<Browser!Request("list", path, 0)>>, c)
  <2> DEFINE r == Browser!Request("list", path, 0)
  <2>1. r \in Asked /\ r.ask = "list" BY <1>7
  <2> HIDE DEF r
  <2>3. /\ left \o <<r>> = Append(left, r) /\ Append(left, r) \in Seq(Asked)
        /\ Cardinality(WalksIn(Append(left, r))) = Cardinality(WalksIn(left))
        /\ \A c : NoWalkOf(Append(left, r), c) <=> NoWalkOf(left, c)
    BY <1>4, <2>1, WalksAppended
  <2>4. /\ left \o <<r>> \in Seq(Asked) /\ Cardinality(WalksIn(left \o <<r>>)) = Cardinality(WalksIn(left))
        /\ \A c : NoWalkOf(left, c) => NoWalkOf(left \o <<r>>, c)
    BY <2>3
  <2> QED BY <2>4 DEF r
<1>9. /\ requests' \in Seq(Asked)
      /\ Cardinality(WalksIn(requests')) = Cardinality(WalksIn(requests))
      /\ \A c : NoWalkOf(requests, c) => NoWalkOf(requests', c)
  BY <1>4, <1>6, <1>8
<1>10. history' \in Seq(Dirs) /\ histPos' \in 1 .. Len(history') BY <1>1, <1>3 DEF BrowserTypes
<1> QED BY <1>3, <1>5, <1>9, <1>10, BrowserAsks

LEMMA BrowserWalked ==
    ASSUME BrowserInv, NEW ok \in BOOLEAN, Browser!OnSyncListingReady(ok)
    PROVE  BrowserInv'
<1>1. BrowserTypes /\ TransfersKnown BY DEF BrowserInv
<1>2. /\ copies \in Nat /\ requests \in Seq(Asked) /\ onReady \in 0 .. copies /\ handed \subseteq 1 .. copies
      /\ pendingDirs \in Nat /\ path \in Dirs /\ underWay \subseteq [id : Nat, copy : Nat]
  BY <1>1 DEF BrowserTypes
<1>3. /\ requests # << >> /\ Head(requests).ask = "walk" /\ requests' = Tail(requests)
      /\ UNCHANGED <<path, history, histPos, copies, overtaken>>
  BY DEF Browser!OnSyncListingReady, Browser!Answer, Browser!navVars
<1>a. PICK h \in Nat : h = Head(requests).copy
  <2>1. Head(requests) \in Asked BY <1>2, <1>3
  <2> QED BY <2>1 DEF Asked
<1>4. /\ requests' \in Seq(Asked)
      /\ Cardinality(WalksIn(requests)) = Cardinality(WalksIn(requests')) + 1
      /\ \A c : NoWalkOf(requests, c) <=> NoWalkOf(requests', c) /\ h # c
  BY <1>2, <1>3, <1>a, WalksAfterHead
<1>b. Cardinality(WalksIn(requests')) \in Nat BY <1>4, WalksCounted
<1>c. WalksKnown' BY <1>3, <1>4 DEF BrowserInv, WalksKnown
<1>d. h <= copies
  <2>1. ~NoWalkOf(requests, h) BY <1>4
  <2>2. ~(h > copies) BY <2>1 DEF BrowserInv, WalksKnown
  <2> QED BY <1>2, <2>2
<1>5. CASE pendingDirs = 0
  <2>1. UNCHANGED <<underWay, files, batch, pendingDirs, onReady, handed>>
    BY <1>5 DEF Browser!OnSyncListingReady, Browser!tempVars
  <2>2. onReady = 0 \/ onReady \in overtaken
    <3>1. ~Counts(onReady) BY <1>4, <1>5, <1>b DEF Counts
    <3> QED BY <3>1 DEF BrowserInv
  <2>3. BrowserTypes' /\ TransfersKnown' BY <1>1, <1>3, <1>4, <2>1 DEF BrowserTypes, TransfersKnown
  <2>4. \A d \in handed' \ overtaken' : NothingOwed(d)'
    BY <1>3, <1>4, <2>1 DEF BrowserInv, NothingOwed
  <2> QED BY <1>3, <1>c, <2>1, <2>2, <2>3, <2>4 DEF BrowserInv
<1>6. CASE pendingDirs # 0
  <2>1. PICK n \in 0 .. 1 :
          /\ Browser!Enqueue(Browser!Begun(n, Head(requests).copy))
          /\ batch' = batch \union Browser!Ids(Browser!Begun(n, Head(requests).copy))
    BY <1>6 DEF Browser!OnSyncListingReady
  <2>2. pendingDirs' = pendingDirs - 1 /\ Browser!MaybeFinishTemp
    BY <1>6 DEF Browser!OnSyncListingReady, Browser!PendingAfter
  <2>3. PICK begun : begun = Browser!Begun(n, h) OBVIOUS
  <2>4. Browser!Enqueue(begun) /\ batch' = batch \union Browser!Ids(begun) BY <1>a, <2>1, <2>3
  <2>6. /\ TransfersKnown' /\ files' \in Nat /\ underWay' \subseteq [id : Nat, copy : Nat]
        /\ underWay' = underWay \union begun
        /\ \A t \in begun : t.copy = h /\ t.id \in Browser!Ids(begun)
    BY <1>1, <1>2, <1>3, <1>d, <2>3, <2>4, BegunAre
  <2>7. \A c : Counts(c) => Counts(c)' BY <1>2, <1>4, <1>b, <2>2, <2>4, <2>6 DEF Counts
  <2>8. \A d \in handed \ overtaken : NothingOwed(d)'
    BY <1>4, <2>6 DEF BrowserInv, NothingOwed
  <2>9. PICK c : c = onReady OBVIOUS
  <2>10. c # 0 /\ c \notin overtaken => Counts(c)' BY <2>7, <2>9 DEF BrowserInv
  <2>11. pendingDirs' \in Nat BY <1>2, <1>6, <2>2
  <2>12. /\ onReady' \in 0 .. copies' /\ handed' \subseteq 1 .. copies'
         /\ onReady' # 0 /\ onReady' \notin overtaken' => Counts(onReady)'
         /\ \A d \in handed' \ overtaken' : NothingOwed(d)'
    BY <1>2, <1>3, <1>4, <2>2, <2>8, <2>9, <2>10, <2>11, BrowserFinish
  <2>13. BrowserTypes' BY <1>1, <1>3, <1>4, <2>6, <2>11, <2>12 DEF BrowserTypes
  <2> QED BY <1>c, <2>6, <2>12, <2>13 DEF BrowserInv
<1> QED BY <1>5, <1>6

LEMMA BrowserStep == BrowserInv /\ (Browser!Next \/ UNCHANGED Browser!browserVars) => BrowserInv'
BY BrowserGoes, BrowserEnqueues, BrowserTransferEnds, BrowserAnswers, BrowserWalked
   DEF Browser!Next, Browser!UserActs, Browser!TransferEnds, Browser!SessionAnswers

\* For any directories and any number of copies, requests and transfers: a copy
\* is handed over when every download of it has ended, those of folders that had
\* to be walked included.
THEOREM CopiesWhole == MCSpec => []HandedOverWhole
<1> DEFINE I == op = "browser" => BrowserInv
<1>1. MCInit => I BY BrowserStarts DEF MCInit
<1>2. I /\ [MCNext]_mcVars => I'
  <2> SUFFICES ASSUME I, [MCNext]_mcVars, op' = "browser" PROVE BrowserInv' OBVIOUS
  <2>1. CASE Browsers(Browser!Next) BY <2>1, BrowserStep DEF Browsers
  <2>2. CASE UNCHANGED mcVars
    BY <2>2, BrowserStep DEF mcVars, browserVars, Browser!browserVars, Browser!navVars, Browser!tempVars,
                             Browser!historyVars
  <2>3. CASE Mains(Next) \/ Tables(TableNext) \/ InPanes(Panes!Next)
    <3>1. op \in {"main", "table", "panes"} /\ op' = op BY <2>3 DEF Mains, Tables, InPanes
    <3> QED BY <3>1
  <2> QED BY <2>1, <2>2, <2>3 DEF MCNext
<1>3. I => HandedOverWhole
  BY OwedIs DEF HandedOverWhole, Browser!HandedOverWhole, BrowserInv, BrowserTypes
<1> QED BY <1>1, <1>2, <1>3, PTL DEF MCSpec
-----------------------------------------------------------------------------
(* Paths.                                                                  *)

\* What is left of a sequence is its end.
LEMMA RestIs ==
    ASSUME NEW S, NEW s \in Seq(S), s # << >>
    PROVE  Len(Tail(s)) <= Len(s) /\ Panes!IsSuffix(Tail(s), s)
<1> DEFINE t == Tail(s)
<1>1. t \in Seq(S) /\ Len(t) = Len(s) - 1 /\ Len(s) \in Nat \ {0} /\ \A k \in 1 .. Len(s) - 1 : t[k] = s[k + 1]
  OBVIOUS
<1> HIDE DEF t
<1> DEFINE back == Panes!Reverse(s)  rest == Panes!Reverse(t)
<1>2. /\ back \in Seq(S) /\ Len(back) = Len(s) /\ rest \in Seq(S) /\ Len(rest) = Len(s) - 1
      /\ \A k \in 1 .. Len(s) - 1 : back[k] = s[Len(s) - k + 1] /\ rest[k] = s[Len(s) - k + 1]
  <2>1. back = [k \in 1 .. Len(s) |-> s[(Len(s) - k) + 1]] BY DEF Panes!Reverse
  <2>2. rest = [k \in 1 .. Len(t) |-> t[(Len(t) - k) + 1]] BY DEF Panes!Reverse
  <2>3. \A k \in 1 .. Len(s) : s[(Len(s) - k) + 1] \in S BY <1>1
  <2>4. \A k \in 1 .. Len(t) : t[(Len(t) - k) + 1] = s[Len(s) - k + 1] BY <1>1
  <2>5. \A k \in 1 .. Len(t) : t[(Len(t) - k) + 1] \in S BY <1>1, <2>3, <2>4
  <2>6. back \in Seq(S) /\ Len(back) = Len(s)
    <3> HIDE DEF back
    <3> QED BY <1>1, <2>1, <2>3
  <2>7. rest \in Seq(S) /\ Len(rest) = Len(t)
    <3> HIDE DEF rest
    <3> QED BY <1>1, <2>2, <2>5
  <2>8. \A k \in 1 .. Len(s) - 1 : back[k] = s[Len(s) - k + 1] BY <1>1, <2>1
  <2>9. \A k \in 1 .. Len(s) - 1 : rest[k] = s[Len(s) - k + 1] BY <1>1, <2>2, <2>4
  <2> HIDE DEF back, rest
  <2> QED BY <1>1, <2>6, <2>7, <2>8, <2>9
<1> HIDE DEF back, rest
<1>3. SubSeq(rest, 1, Len(rest)) = SubSeq(back, 1, Len(rest))
  <2> DEFINE a == SubSeq(rest, 1, Len(rest))  b == SubSeq(back, 1, Len(rest))
  <2>1. /\ a \in Seq(S) /\ Len(a) = Len(rest) /\ b \in Seq(S) /\ Len(b) = Len(rest)
        /\ \A k \in 1 .. Len(rest) : a[k] = rest[k] /\ b[k] = back[k]
    BY <1>1, <1>2
  <2> HIDE DEF a, b
  <2>2. a = b BY <1>1, <1>2, <2>1
  <2> QED BY <2>2 DEF a, b
<1>4. Panes!IsPrefix(rest, back) BY <1>1, <1>2, <1>3 DEF Panes!IsPrefix
<1> QED BY <1>1, <1>4 DEF Panes!IsSuffix, t, rest, back

LEMMA JoinedIs ==
    ASSUME NEW S, NEW s \in Seq(S), NEW t \in Seq(S)
    PROVE  /\ s \o t \in Seq(S) /\ Len(s \o t) = Len(s) + Len(t) /\ Len(s) \in Nat /\ Len(t) \in Nat
           /\ \A k \in 1 .. Len(s) : (s \o t)[k] = s[k]
           /\ \A k \in 1 .. Len(t) : (s \o t)[Len(s) + k] = t[k]
OBVIOUS

LEMMA EndIs ==
    ASSUME NEW S, NEW s \in Seq(S), NEW n \in 0 .. Len(s)
    PROVE  /\ SubSeq(s, n + 1, Len(s)) \in Seq(S)
           /\ Len(SubSeq(s, n + 1, Len(s))) = Len(s) - n
           /\ \A k \in 1 .. Len(s) - n : SubSeq(s, n + 1, Len(s))[k] = s[n + k]
<1>1. Len(s) \in Nat OBVIOUS
<1>2. Len(SubSeq(s, n + 1, Len(s))) = Len(s) - n BY <1>1
<1>3. \A k \in 1 .. Len(s) - n : n + 1 + k - 1 = n + k /\ n + k \in 1 .. Len(s) BY <1>1
<1>4. \A k \in 1 .. Len(s) - n : SubSeq(s, n + 1, Len(s))[k] = s[n + k] BY <1>1, <1>2, <1>3
<1> QED BY <1>1, <1>2, <1>4

LEMMA StartIs ==
    ASSUME NEW S, NEW s \in Seq(S), NEW n \in 0 .. Len(s)
    PROVE  /\ SubSeq(s, 1, n) \in Seq(S) /\ Len(SubSeq(s, 1, n)) = n
           /\ \A k \in 1 .. n : SubSeq(s, 1, n)[k] = s[k]
OBVIOUS

LEMMA SameParts ==
    ASSUME NEW S, NEW s \in Seq(S), NEW t \in Seq(S), Len(s) = Len(t), \A k \in 1 .. Len(s) : s[k] = t[k]
    PROVE  s = t
OBVIOUS

\* A path and one below it.
LEMMA BelowIs ==
    ASSUME NEW S, NEW root \in Seq(S), NEW new \in Seq(S), Panes!IsStrictPrefix(root, new)
    PROVE  /\ Len(root) < Len(new) /\ Len(root) \in Nat /\ Len(new) \in Nat
           /\ new = root \o SubSeq(new, Len(root) + 1, Len(new))
<1>1. Len(root) \in Nat /\ Len(new) \in Nat OBVIOUS
<1>2. Len(root) <= Len(new) /\ SubSeq(root, 1, Len(root)) = SubSeq(new, 1, Len(root)) /\ root # new
  BY DEF Panes!IsStrictPrefix, Panes!IsPrefix
<1>3. \A k \in 1 .. Len(root) : root[k] = new[k]
  <2> DEFINE a == SubSeq(root, 1, Len(root))  b == SubSeq(new, 1, Len(root))
  <2>1. /\ \A k \in 1 .. Len(root) : a[k] = root[k]
        /\ \A k \in 1 .. Len(root) : b[k] = new[k]
    BY <1>1, <1>2, StartIs
  <2>2. a = b BY <1>2
  <2> HIDE DEF a, b
  <2> QED BY <2>1, <2>2
<1>4. Len(root) < Len(new)
  <2> SUFFICES ASSUME Len(root) = Len(new) PROVE FALSE BY <1>1, <1>2
  <2>1. root = new BY <1>3, SameParts
  <2> QED BY <1>2, <2>1
<1> DEFINE rest == SubSeq(new, Len(root) + 1, Len(new))
<1>5. /\ rest \in Seq(S) /\ Len(rest) = Len(new) - Len(root)
      /\ \A k \in 1 .. Len(new) - Len(root) : rest[k] = new[Len(root) + k]
  BY <1>1, <1>2, EndIs
<1> HIDE DEF rest
<1>6. /\ root \o rest \in Seq(S) /\ Len(root \o rest) = Len(new)
      /\ \A k \in 1 .. Len(root) : (root \o rest)[k] = root[k]
      /\ \A k \in 1 .. Len(rest) : (root \o rest)[Len(root) + k] = rest[k]
  BY <1>1, <1>5, JoinedIs
<1>7. ASSUME NEW k \in 1 .. Len(new) PROVE (root \o rest)[k] = new[k]
  <2>1. CASE k \in 1 .. Len(root) BY <1>3, <1>6, <2>1
  <2>2. CASE k \notin 1 .. Len(root)
    <3>1. PICK m \in 1 .. Len(new) - Len(root) : k = Len(root) + m
      <4>1. k - Len(root) \in 1 .. Len(new) - Len(root) /\ k = Len(root) + (k - Len(root)) BY <1>1, <2>2
      <4> QED BY <4>1
    <3> QED BY <1>5, <1>6, <3>1
  <2> QED BY <2>1, <2>2
<1>8. new = root \o rest BY <1>6, <1>7, SameParts
<1> QED BY <1>1, <1>4, <1>8 DEF rest

LEMMA AddedBelow ==
    ASSUME NEW S, NEW root \in Seq(S), NEW rest \in Seq(S), rest # << >>
    PROVE  /\ Panes!IsStrictPrefix(root, root \o rest) /\ root \o rest # root
           /\ SubSeq(root \o rest, Len(root) + 1, Len(root \o rest)) = rest
<1>1. /\ root \o rest \in Seq(S) /\ Len(root \o rest) = Len(root) + Len(rest)
      /\ Len(root) \in Nat /\ Len(rest) \in Nat /\ Len(rest) # 0
      /\ \A k \in 1 .. Len(root) : (root \o rest)[k] = root[k]
      /\ \A k \in 1 .. Len(rest) : (root \o rest)[Len(root) + k] = rest[k]
  <2>1. Len(rest) # 0 OBVIOUS
  <2> QED BY <2>1, JoinedIs
<1> DEFINE new == root \o rest
<1> HIDE DEF new
<1>2. new # root BY <1>1 DEF new
<1>3. Len(root) \in 0 .. Len(new) /\ Len(root) \in 0 .. Len(root) /\ Len(new) - Len(root) = Len(rest)
      /\ new \in Seq(S)
  BY <1>1 DEF new
<1>4. SubSeq(root, 1, Len(root)) = SubSeq(new, 1, Len(root))
  <2> DEFINE a == SubSeq(root, 1, Len(root))  b == SubSeq(new, 1, Len(root))
  <2>1. /\ a \in Seq(S) /\ Len(a) = Len(root) /\ \A k \in 1 .. Len(root) : a[k] = root[k]
    BY <1>3, StartIs
  <2>2. /\ b \in Seq(S) /\ Len(b) = Len(root) /\ \A k \in 1 .. Len(root) : b[k] = new[k]
    BY <1>3, StartIs
  <2> HIDE DEF a, b
  <2>3. \A k \in 1 .. Len(a) : a[k] = b[k] BY <1>1, <2>1, <2>2 DEF new
  <2>4. a = b BY <2>1, <2>2, <2>3, SameParts
  <2> QED BY <2>4 DEF a, b
<1>5. Panes!IsStrictPrefix(root, new) BY <1>1, <1>2, <1>3, <1>4 DEF Panes!IsStrictPrefix, Panes!IsPrefix
<1>6. SubSeq(new, Len(root) + 1, Len(new)) = rest
  <2> DEFINE a == SubSeq(new, Len(root) + 1, Len(new))
  <2>1. /\ a \in Seq(S) /\ Len(a) = Len(rest) /\ \A k \in 1 .. Len(rest) : a[k] = new[Len(root) + k]
    BY <1>3, EndIs
  <2> HIDE DEF a
  <2>2. \A k \in 1 .. Len(a) : a[k] = rest[k] BY <1>1, <2>1 DEF new
  <2>3. a = rest BY <2>1, <2>2, SameParts
  <2> QED BY <2>3 DEF a
<1> QED BY <1>2, <1>5, <1>6 DEF new

-----------------------------------------------------------------------------
(* The panes.                                                              *)

Filled == Names \union {".", "..", "C:", "l", "x"}
Parts == Filled \union {""}
Full(p) == \A n \in 2 .. Len(p) : p[n] \in Filled

\* What a remote path can be: a part is empty only where a slash leads, or where
\* the root itself is followed by another one.
RemotePlaced(p) ==
    /\ Len(p) >= 1
    /\ \A n \in 3 .. Len(p) : p[n] \in Filled
    /\ Len(p) = 1 => p[1] \in Filled
    /\ Len(p) >= 2 /\ p[1] \in Filled => p[2] \in Filled
RemotePaths == {p \in Seq(Parts) : RemotePlaced(p)}

LEMMA FilledIs ==
    /\ "" \notin Filled /\ {".", "..", "C:", "l", "x"} \subseteq Filled /\ Names \subseteq Filled
    /\ Filled \subseteq Parts /\ "" \in Parts
<1>1. "" \notin {".", "..", "C:", "l", "x"} OBVIOUS
<1> QED BY <1>1, NamesAssumption DEF Filled, Parts

LEMMA OneIs == ASSUME NEW S, NEW a \in S PROVE <<a>> \in Seq(S) /\ Len(<<a>>) = 1 /\ <<a>>[1] = a
OBVIOUS
LEMMA TwoIs ==
    ASSUME NEW S, NEW a \in S, NEW b \in S
    PROVE  <<a, b>> \in Seq(S) /\ Len(<<a, b>>) = 2 /\ <<a, b>>[1] = a /\ <<a, b>>[2] = b
OBVIOUS
LEMMA ThreeIs ==
    ASSUME NEW S, NEW a \in S, NEW b \in S, NEW c \in S
    PROVE  /\ <<a, b, c>> \in Seq(S) /\ Len(<<a, b, c>>) = 3
           /\ <<a, b, c>>[1] = a /\ <<a, b, c>>[2] = b /\ <<a, b, c>>[3] = c
OBVIOUS

LEMMA MoreThanOne ==
    ASSUME NEW n \in Nat, n >= 1 PROVE n # 1 <=> n >= 2 /\ 1 \in 1 .. n /\ 2 \in 1 .. n
OBVIOUS

\* What is left of a local folder's path without the slash it ends in.
Stem(p) ==
    /\ p \in Seq(Parts) /\ Len(p) >= 1 /\ Full(p)
    /\ Len(p) = 1 => p[1] \in Filled

LEMMA SlashIs ==
    /\ Panes!Slash \in Seq(Parts) /\ Len(Panes!Slash) = 2
    /\ Panes!Slash[1] \notin Filled /\ Panes!Slash[2] \notin Filled
    /\ ~Full(Panes!Slash) /\ Panes!Trim(Panes!Slash) = Panes!Slash
<1>1. PICK e : e = "" OBVIOUS
<1>2. e \in Parts /\ ~(e \in Filled) BY <1>1, FilledIs
<1>3. PICK p : p = <<e, e>> OBVIOUS
<1>4. p \in Seq(Parts) /\ Len(p) = 2 /\ p[1] = e /\ p[2] = e BY <1>2, <1>3, TwoIs
<1>5. ~Full(p)
  <2>1. 2 \in 2 .. Len(p) BY <1>4
  <2> QED BY <1>2, <1>4, <2>1 DEF Full
<1>6. p = Panes!Slash BY <1>1, <1>3 DEF Panes!Slash
<1>7. Panes!Trim(p) = p BY <1>6 DEF Panes!Trim
<1> QED BY <1>2, <1>4, <1>5, <1>6, <1>7

LEMMA HasParts ==
    ASSUME NEW p, p = Panes!Slash \/ Stem(p) PROVE p \in Seq(Parts) /\ Len(p) >= 1 /\ Len(p) \in Nat
<1>1. CASE p = Panes!Slash
  <2>1. p \in Seq(Parts) /\ Len(p) = 2 BY <1>1, SlashIs
  <2>2. PICK n : n = Len(p) OBVIOUS
  <2>3. n = 2 => n >= 1 /\ n \in Nat OBVIOUS
  <2> QED BY <2>1, <2>2, <2>3
<1>2. CASE Stem(p)
  <2>1. p \in Seq(Parts) /\ Len(p) >= 1 BY <1>2 DEF Stem
  <2>2. Len(p) \in Nat BY <2>1
  <2> QED BY <2>1, <2>2
<1> QED BY <1>1, <1>2

LEMMA AfterJoined ==
    ASSUME NEW S, NEW s \in Seq(S), NEW w \in Seq(S), Len(w) >= 1
    PROVE  (s \o w)[Len(s) + 1] = w[1]
OBVIOUS

LEMMA OneAndOne == ASSUME NEW a \in Nat, NEW b \in Nat, a >= 1, b >= 1, ~(a + b >= 3) PROVE a = 1 /\ b = 1
OBVIOUS

\* Paths that end in a name keep all of it.
LEMMA TrimFull ==
    ASSUME NEW p \in Seq(Parts), Len(p) >= 1, Len(p) = 1 \/ p[Len(p)] \in Filled
    PROVE  Panes!Trim(p) = p
<1>0. Len(p) \in Nat OBVIOUS
<1>1. CASE Len(p) = 1
  <2>1. ~(1 > 1) OBVIOUS
  <2> QED BY <1>1, <2>1 DEF Panes!Trim
<1>2. CASE p[Len(p)] \in Filled
  <2>1. p[Len(p)] # "" BY <1>2, FilledIs
  <2> QED BY <2>1 DEF Panes!Trim, Panes!Last
<1> QED BY <1>1, <1>2

LEMMA LastFilled ==
    ASSUME NEW p \in Seq(Parts), Len(p) >= 2, Full(p) PROVE p[Len(p)] \in Filled
<1>1. Len(p) \in 2 .. Len(p) OBVIOUS
<1> QED BY <1>1 DEF Full

LEMMA TrimStem == ASSUME NEW p, Stem(p) PROVE Panes!Trim(p) = p
<1>1. p \in Seq(Parts) /\ Len(p) >= 1 /\ Full(p) /\ Len(p) \in Nat BY DEF Stem
<1>2. CASE Len(p) = 1 BY <1>1, <1>2, TrimFull
<1>3. CASE Len(p) # 1
  <2>1. Len(p) >= 2 BY <1>1, <1>3, MoreThanOne
  <2>2. p[Len(p)] \in Filled BY <1>1, <2>1, LastFilled
  <2> QED BY <1>1, <2>2, TrimFull
<1> QED BY <1>2, <1>3

LEMMA OneTwoMore == ASSUME NEW n \in Nat, n >= 1 PROVE n = 1 \/ n = 2 \/ n >= 3
OBVIOUS

LEMMA TrimRemote == ASSUME NEW p \in RemotePaths PROVE Panes!Trim(p) = p
<1>1. p \in Seq(Parts) /\ RemotePlaced(p) BY DEF RemotePaths
<1>2. Len(p) >= 1 /\ (\A n \in 3 .. Len(p) : p[n] \in Filled)
      /\ (Len(p) >= 2 /\ p[1] \in Filled => p[2] \in Filled) /\ Len(p) \in Nat
  BY <1>1 DEF RemotePlaced
<1>3. CASE Len(p) = 1 BY <1>1, <1>2, <1>3, TrimFull
<1>4. CASE Len(p) >= 3
  <2>1. Len(p) \in 3 .. Len(p) BY <1>2, <1>4
  <2>2. p[Len(p)] \in Filled BY <1>2, <2>1
  <2> QED BY <1>1, <1>2, <2>2, TrimFull
<1>5. CASE Len(p) = 2
  <2>0. 1 \in 1 .. Len(p) /\ 2 \in 1 .. Len(p) BY <1>5
  <2>1. CASE p[2] \in Filled BY <1>1, <1>2, <1>5, <2>1, TrimFull
  <2>2. CASE p[2] \notin Filled
    <3>1. p[1] \in Parts /\ p[2] \in Parts BY <1>1, <2>0
    <3>2. p[1] \notin Filled BY <1>2, <1>5, <2>2
    <3>3. p[1] = "" /\ p[2] = "" BY <2>2, <3>1, <3>2 DEF Parts
    <3>4. p = <<p[1], p[2]>> BY <1>1, <1>5
    <3>5. p = Panes!Slash BY <3>3, <3>4 DEF Panes!Slash
    <3> QED BY <3>5, SlashIs
  <2> QED BY <2>1, <2>2
<1>6. Len(p) = 1 \/ Len(p) = 2 \/ Len(p) >= 3 BY <1>2, OneTwoMore
<1> QED BY <1>3, <1>4, <1>5, <1>6

LEMMA CleanFull ==
    ASSUME NEW p \in Seq(Parts), Len(p) >= 2, p[2] \in Filled
    PROVE  Panes!CleanPath(p) = p
<1>1. p[2] # "" BY FilledIs
<1>2. Len(p) # 1
  <2>1. Len(p) \in Nat OBVIOUS
  <2>2. ~(1 >= 2) OBVIOUS
  <2> QED BY <2>1, <2>2
<1> QED BY <1>1, <1>2 DEF Panes!CleanPath

LEMMA CleanSlash == Panes!CleanPath(Panes!Slash) = Panes!Slash
<1>1. Len(Panes!Slash) = 2 BY SlashIs
<1>2. ~(2 = 1) /\ ~(2 > 2) OBVIOUS
<1> QED BY <1>1, <1>2 DEF Panes!CleanPath

LEMMA FoldersAre ==
    \A d \in LocalFolders :
        /\ d \in Seq(Parts) /\ Len(d) >= 2
        /\ d = Panes!Slash \/ Stem(Panes!Trim(d))
        /\ Panes!Trim(d) = d => Panes!CleanPath(d) = d
<1> DEFINE ok(d) == /\ d \in Seq(Parts) /\ Len(d) >= 2
                    /\ d = Panes!Slash \/ Stem(Panes!Trim(d))
                    /\ Panes!Trim(d) = d => Panes!CleanPath(d) = d
<1>1. ASSUME NEW a \in Parts, NEW b \in Filled PROVE ok(<<a, b>>)
  <2>1. b \in Parts BY FilledIs
  <2>2. PICK p : p = <<a, b>> OBVIOUS
  <2>3. p \in Seq(Parts) /\ Len(p) = 2 /\ p[2] = b BY <2>1, <2>2, TwoIs
  <2>4. \A n \in 2 .. Len(p) : n = 2 BY <2>3
  <2>5. Full(p) BY <2>3, <2>4 DEF Full
  <2>6. Stem(p) BY <2>3, <2>5 DEF Stem
  <2>7. Panes!Trim(p) = p BY <2>6, TrimStem
  <2>8. Panes!CleanPath(p) = p BY <2>3, CleanFull
  <2> QED BY <2>2, <2>3, <2>6, <2>7, <2>8
<1>2. ASSUME NEW a \in Parts, NEW b \in Filled, NEW c \in Filled PROVE ok(<<a, b, c>>)
  <2>1. b \in Parts /\ c \in Parts BY FilledIs
  <2>2. PICK p : p = <<a, b, c>> OBVIOUS
  <2>3. p \in Seq(Parts) /\ Len(p) = 3 /\ p[2] = b /\ p[3] = c BY <2>1, <2>2, ThreeIs
  <2>4. \A n \in 2 .. Len(p) : n = 2 \/ n = 3 BY <2>3
  <2>5. Full(p) BY <2>3, <2>4 DEF Full
  <2>6. Stem(p) BY <2>3, <2>5 DEF Stem
  <2>7. Panes!Trim(p) = p BY <2>6, TrimStem
  <2>8. Panes!CleanPath(p) = p BY <2>3, CleanFull
  <2> QED BY <2>2, <2>3, <2>6, <2>7, <2>8
<1>3. "C:" \in Filled /\ "l" \in Filled /\ "x" \in Filled /\ "C:" \in Parts /\ "" \in Parts
  BY FilledIs
<1>4. ok(<<"C:", "l">>) /\ ok(<<"", "l">>)
  <2> HIDE DEF ok
  <2> QED BY <1>1, <1>3
<1>5. ok(<<"C:", "l", "x">>) /\ ok(<<"", "l", "x">>)
  <2> HIDE DEF ok
  <2> QED BY <1>2, <1>3
<1>6. ok(<<"", "">>)
  <2>1. 2 >= 2 OBVIOUS
  <2>2. ok(Panes!Slash) BY <2>1, SlashIs, CleanSlash
  <2> HIDE DEF ok
  <2> QED BY <2>2 DEF Panes!Slash
<1>7. ok(<<"C:", "">>)
  <2>1. PICK e : e = "" OBVIOUS
  <2>2. PICK c : c = "C:" OBVIOUS
  <2>3. PICK p : p = <<c, e>> OBVIOUS
  <2>4. p \in Seq(Parts) /\ Len(p) = 2 /\ p[1] = c /\ p[2] = e BY <1>3, <2>1, <2>2, <2>3, TwoIs
  <2>5. c \in Filled /\ c \in Parts BY <1>3, <2>2
  <2>6. p # Panes!Slash BY <2>4, <2>5, SlashIs
  <2>7. SubSeq(p, 1, 1) = <<c>>
    <3>1. 1 \in 0 .. Len(p) BY <2>4
    <3>2. PICK q : q = SubSeq(p, 1, 1) OBVIOUS
    <3>3. q \in Seq(Parts) /\ Len(q) = 1 /\ \A k \in 1 .. 1 : q[k] = p[k] BY <2>4, <3>1, <3>2, StartIs
    <3>4. q = <<q[1]>> /\ q[1] = p[1] BY <3>3
    <3> QED BY <2>4, <3>2, <3>4
  <2>8. Panes!Trim(p) = <<c>>
    <3>1. Len(p) > 1 /\ p[Len(p)] = e /\ Len(p) - 1 = 1 BY <2>4
    <3>2. p[Len(p)] = "" BY <2>1, <3>1
    <3>3. SubSeq(p, 1, Len(p) - 1) = <<c>> BY <2>7, <3>1
    <3> QED BY <2>6, <3>1, <3>2, <3>3 DEF Panes!Trim, Panes!Front, Panes!Last
  <2>9. Stem(<<c>>)
    <3>1. PICK q : q = <<c>> OBVIOUS
    <3>2. q \in Seq(Parts) /\ Len(q) = 1 /\ q[1] = c BY <2>5, <3>1, OneIs
    <3>3. Full(q)
      <4>1. \A n \in 2 .. Len(q) : FALSE BY <3>2
      <4> QED BY <4>1 DEF Full
    <3> QED BY <2>5, <3>1, <3>2, <3>3 DEF Stem
  <2>10. <<c>> # p
    <3>1. PICK q : q = <<c>> OBVIOUS
    <3>2. Len(q) = 1 BY <2>5, <3>1, OneIs
    <3>3. Len(p) # 1 BY <2>4
    <3> QED BY <3>1, <3>2, <3>3
  <2>11. Len(p) >= 2 BY <2>4
  <2>12. ok(p) BY <2>4, <2>8, <2>9, <2>10, <2>11
  <2>13. p = <<"C:", "">> BY <2>1, <2>2, <2>3
  <2> HIDE DEF ok
  <2> QED BY <2>12, <2>13
<1> HIDE DEF ok
<1>8. \A d \in LocalFolders : ok(d) BY <1>4, <1>5, <1>6, <1>7 DEF LocalFolders
<1> QED BY <1>8 DEF ok

LEMMA NameAlone == ASSUME NEW a \in Filled PROVE <<a>> \in RemotePaths
<1>1. a \in Parts BY FilledIs
<1>2. PICK p : p = <<a>> OBVIOUS
<1>3. p \in Seq(Parts) /\ Len(p) = 1 /\ p[1] = a BY <1>1, <1>2, OneIs
<1>4. RemotePlaced(p) BY <1>3 DEF RemotePlaced
<1> QED BY <1>2, <1>3, <1>4 DEF RemotePaths

LEMMA AfterSlash == ASSUME NEW a \in Parts PROVE <<"", a>> \in RemotePaths
<1>1. PICK e : e = "" OBVIOUS
<1>2. e \in Parts /\ ~(e \in Filled) BY <1>1, FilledIs
<1>3. PICK p : p = <<e, a>> OBVIOUS
<1>4. p \in Seq(Parts) /\ Len(p) = 2 /\ p[1] = e BY <1>2, <1>3, TwoIs
<1>5. RemotePlaced(p) BY <1>2, <1>4 DEF RemotePlaced
<1> QED BY <1>1, <1>3, <1>4, <1>5 DEF RemotePaths

LEMMA FirstPathsAre == Panes!Dot \in RemotePaths /\ Panes!Slash \in RemotePaths /\ <<"..">> \in RemotePaths
<1>1. "." \in Filled /\ ".." \in Filled /\ "" \in Parts BY FilledIs
<1> QED BY <1>1, NameAlone, AfterSlash DEF Panes!Dot, Panes!Slash

LEMMA RemoteJoinIs ==
    ASSUME NEW dir \in RemotePaths, NEW name \in Names PROVE Panes!RemoteJoin(dir, name) \in RemotePaths
<1>1. name \in Filled /\ name \in Parts BY FilledIs
<1>2. <<name>> \in RemotePaths BY <1>1, NameAlone
<1>3. <<"", name>> \in RemotePaths BY <1>1, AfterSlash
<1>4. Append(dir, name) \in RemotePaths
  <2>1. dir \in Seq(Parts) /\ RemotePlaced(dir) BY DEF RemotePaths
  <2>2. PICK t : t = Append(dir, name) OBVIOUS
  <2>3. /\ t \in Seq(Parts) /\ Len(t) = Len(dir) + 1 /\ t[Len(dir) + 1] = name /\ Len(dir) \in Nat
        /\ \A n \in 1 .. Len(dir) : t[n] = dir[n]
    BY <1>1, <2>1, <2>2
  <2>4. Len(dir) >= 1 /\ (\A n \in 3 .. Len(dir) : dir[n] \in Filled) /\ (Len(dir) = 1 => dir[1] \in Filled)
        /\ (Len(dir) >= 2 /\ dir[1] \in Filled => dir[2] \in Filled)
    BY <2>1 DEF RemotePlaced
  <2>5. \A n \in 3 .. Len(t) : t[n] \in Filled
    <3> SUFFICES ASSUME NEW n \in 3 .. Len(dir) + 1 PROVE t[n] \in Filled BY <2>3
    <3>1. CASE n = Len(dir) + 1 BY <1>1, <2>3, <3>1
    <3>2. CASE n # Len(dir) + 1
      <4>1. n \in 3 .. Len(dir) /\ n \in 1 .. Len(dir) BY <2>3, <3>2
      <4> QED BY <2>3, <2>4, <4>1
    <3> QED BY <3>1, <3>2
  <2>6. t[1] \in Filled => t[2] \in Filled
    <3>1. CASE Len(dir) = 1 BY <1>1, <2>3, <3>1
    <3>2. CASE Len(dir) # 1
      <4>0. Len(dir) \in Nat /\ Len(dir) >= 1 BY <2>3, <2>4
      <4>1. 1 \in 1 .. Len(dir) /\ 2 \in 1 .. Len(dir) /\ Len(dir) >= 2 BY <4>0, <3>2, MoreThanOne
      <4>2. t[1] = dir[1] /\ t[2] = dir[2] BY <2>3, <4>1
      <4> QED BY <2>4, <4>1, <4>2
    <3> QED BY <3>1, <3>2
  <2>7. Len(t) >= 2 /\ Len(t) \in Nat BY <2>3, <2>4
  <2>a. Len(t) >= 1 /\ Len(t) # 1
    <3>1. Len(t) \in Nat /\ Len(t) >= 1 /\ 1 \in 1 .. Len(t) /\ 2 \in 1 .. Len(t) BY <2>7
    <3> QED BY <2>7, <3>1, MoreThanOne
  <2>8. RemotePlaced(t) BY <2>5, <2>6, <2>a, Zenon DEF RemotePlaced
  <2> QED BY <2>2, <2>3, <2>8 DEF RemotePaths
<1> QED BY <1>2, <1>3, <1>4 DEF Panes!RemoteJoin

LEMMA UpFromIs == ASSUME NEW dir \in RemotePaths PROVE Panes!UpFrom(dir) \in RemotePaths
<1>1. dir \in Seq(Parts) /\ RemotePlaced(dir) BY DEF RemotePaths
<1>2. Len(dir) >= 1 /\ (\A n \in 3 .. Len(dir) : dir[n] \in Filled) /\ (Len(dir) = 1 => dir[1] \in Filled)
      /\ (Len(dir) >= 2 /\ dir[1] \in Filled => dir[2] \in Filled) /\ Len(dir) \in Nat
  BY <1>1 DEF RemotePlaced
<1>3. ASSUME Len(dir) # 1, ~(Len(dir) = 2 /\ dir[1] \notin Filled) PROVE Panes!Front(dir) \in RemotePaths
  <2>1. PICK t : t = SubSeq(dir, 1, Len(dir) - 1) OBVIOUS
  <2>2. Len(dir) - 1 \in 0 .. Len(dir) BY <1>2
  <2>3. t \in Seq(Parts) /\ Len(t) = Len(dir) - 1 /\ \A k \in 1 .. Len(dir) - 1 : t[k] = dir[k]
    BY <1>1, <2>1, <2>2, StartIs
  <2>4. Len(t) >= 1 BY <1>2, <1>3, <2>3
  <2>5. \A n \in 3 .. Len(t) : t[n] \in Filled BY <1>2, <2>3
  <2>6. Len(t) = 1 => t[1] \in Filled
    <3> SUFFICES ASSUME Len(t) = 1 PROVE t[1] \in Filled OBVIOUS
    <3>0. Len(dir) \in Nat BY <1>2
    <3>a. 1 = Len(dir) - 1 BY <2>3
    <3>b. \A n \in Nat : 1 = n - 1 => n = 2 /\ 1 \in 1 .. n - 1 OBVIOUS
    <3>1. Len(dir) = 2 /\ 1 \in 1 .. Len(dir) - 1 BY <3>0, <3>a, <3>b
    <3>2. t[1] = dir[1] BY <2>3, <3>1
    <3>3. dir[1] \in Filled BY <1>3, <3>1
    <3> QED BY <3>2, <3>3
  <2>7. Len(t) >= 2 /\ t[1] \in Filled => t[2] \in Filled BY <1>2, <2>3
  <2>8. RemotePlaced(t) BY <2>4, <2>5, <2>6, <2>7 DEF RemotePlaced
  <2> QED BY <2>1, <2>3, <2>8 DEF RemotePaths, Panes!Front
<1>4. Len(dir) = 2 /\ dir[1] \notin Filled => dir[1] = ""
  <2>1. Len(dir) = 2 => dir[1] \in Parts BY <1>1
  <2> QED BY <2>1 DEF Parts
<1> QED BY <1>3, <1>4, FirstPathsAre DEF Panes!UpFrom

\* Where a local folder leads in the remote pane.
LEMMA MirroredIs ==
    ASSUME NEW root \in LocalFolders, NEW dir \in LocalFolders, NEW other \in RemotePaths
    PROVE  Panes!MirrorPath(root, dir, other) \in RemotePaths \union {Panes!Nowhere}
<1>1. PICK r : r = Panes!Trim(root) OBVIOUS
<1>2. PICK d : d = Panes!Trim(dir) OBVIOUS
<1>3. (r = Panes!Slash \/ Stem(r)) /\ (d = Panes!Slash \/ Stem(d)) BY <1>1, <1>2, FoldersAre, SlashIs
<1>4. Panes!Trim(other) = other /\ other \in Seq(Parts) /\ RemotePlaced(other)
  BY TrimRemote DEF RemotePaths
<1>5. /\ r \in Seq(Parts) /\ d \in Seq(Parts) /\ Len(r) >= 1 /\ Len(d) >= 1
      /\ Len(r) \in Nat /\ Len(d) \in Nat
  BY <1>3, HasParts, Zenon
<1>6. CASE d = r BY <1>1, <1>2, <1>4, <1>6 DEF Panes!MirrorPath
<1>7. CASE d # r /\ ~Panes!IsStrictPrefix(r, d) BY <1>1, <1>2, <1>7 DEF Panes!MirrorPath
<1>8. CASE d # r /\ Panes!IsStrictPrefix(r, d)
  <2>1. PICK rest : rest = SubSeq(d, Len(r) + 1, Len(d)) OBVIOUS
  <2>2. Len(r) < Len(d) /\ d = r \o rest BY <1>5, <1>8, <2>1, BelowIs
  <2>3. Len(r) \in 0 .. Len(d) BY <1>5, <2>2
  <2>4. rest \in Seq(Parts) /\ Len(rest) = Len(d) - Len(r)
        /\ \A k \in 1 .. Len(d) - Len(r) : rest[k] = d[Len(r) + k]
    BY <1>5, <2>1, <2>3, EndIs
  <2>5. Full(d)
    <3> SUFFICES ASSUME d = Panes!Slash PROVE FALSE BY <1>3 DEF Stem
    <3>1. Len(r) = 1 BY <1>5, <2>2, SlashIs
    <3>2. r # Panes!Slash BY <1>8
    <3>3. r[1] \in Filled BY <1>3, <3>1, <3>2 DEF Stem
    <3>4. (r \o rest)[1] = r[1]
      <4>1. 1 \in 1 .. Len(r) BY <3>1
      <4>2. \A k \in 1 .. Len(r) : (r \o rest)[k] = r[k] BY <1>5, <2>4, JoinedIs
      <4> QED BY <4>1, <4>2
    <3>5. d[1] \in Filled BY <2>2, <3>3, <3>4
    <3> QED BY <3>5, SlashIs
  <2>6. \A k \in 1 .. Len(rest) : rest[k] \in Filled
    <3>1. \A k \in 1 .. Len(rest) : Len(r) + k \in 2 .. Len(d) BY <1>5, <2>2, <2>4
    <3>2. \A n \in 2 .. Len(d) : d[n] \in Filled BY <2>5 DEF Full
    <3> QED BY <2>4, <3>1, <3>2
  <2>7. PICK new : new = other \o rest OBVIOUS
  <2>8. /\ new \in Seq(Parts) /\ Len(new) = Len(other) + Len(rest) /\ Len(other) \in Nat /\ Len(rest) \in Nat
        /\ \A k \in 1 .. Len(other) : new[k] = other[k]
        /\ \A k \in 1 .. Len(rest) : new[Len(other) + k] = rest[k]
    <3>1. other \in Seq(Parts) /\ rest \in Seq(Parts) BY <1>4, <2>4
    <3> QED BY <3>1, <2>7, JoinedIs
  <2>9. Len(other) >= 1 /\ (\A n \in 3 .. Len(other) : other[n] \in Filled)
        /\ (Len(other) >= 2 /\ other[1] \in Filled => other[2] \in Filled)
    BY <1>4 DEF RemotePlaced
  <2>10. Len(new) >= 2 BY <1>5, <2>2, <2>4, <2>8, <2>9
  <2>11. \A n \in Len(other) + 1 .. Len(new) : new[n] \in Filled
    <3> SUFFICES ASSUME NEW n \in Len(other) + 1 .. Len(new) PROVE new[n] \in Filled OBVIOUS
    <3>1. PICK k \in 1 .. Len(rest) : n = Len(other) + k
      <4>1. n - Len(other) \in 1 .. Len(rest) /\ n = Len(other) + (n - Len(other)) BY <2>8
      <4> QED BY <4>1
    <3> QED BY <2>6, <2>8, <3>1
  <2>12. \A n \in 3 .. Len(new) : new[n] \in Filled
    <3> SUFFICES ASSUME NEW n \in 3 .. Len(new) PROVE new[n] \in Filled OBVIOUS
    <3>1. CASE n <= Len(other)
      <4>1. n \in 3 .. Len(other) /\ n \in 1 .. Len(other) BY <2>8, <3>1
      <4> QED BY <2>8, <2>9, <4>1
    <3>2. CASE ~(n <= Len(other))
      <4>1. n \in Len(other) + 1 .. Len(new) BY <2>8, <3>2
      <4> QED BY <2>11, <4>1
    <3> QED BY <3>1, <3>2
  <2>13. new[1] \in Filled => new[2] \in Filled
    <3>1. CASE Len(other) = 1
      <4>1. 2 \in Len(other) + 1 .. Len(new) BY <2>8, <2>10, <3>1
      <4> QED BY <2>11, <4>1
    <3>2. CASE Len(other) # 1
      <4>0. Len(other) \in Nat /\ Len(other) >= 1 BY <2>8, <2>9
      <4>1. 1 \in 1 .. Len(other) /\ 2 \in 1 .. Len(other) /\ Len(other) >= 2 BY <4>0, <3>2, MoreThanOne
      <4>2. new[1] = other[1] /\ new[2] = other[2] BY <2>8, <4>1
      <4> QED BY <2>9, <4>1, <4>2
    <3> QED BY <3>1, <3>2
  <2>a. Len(new) >= 1 /\ Len(new) # 1 BY <2>8, <2>10
  <2>14. RemotePlaced(new) BY <2>12, <2>13, <2>a, Zenon DEF RemotePlaced
  <2>15. Panes!MirrorPath(root, dir, other) = new
    BY <1>1, <1>2, <1>4, <1>8, <2>1, <2>7 DEF Panes!MirrorPath
  <2> QED BY <2>8, <2>14, <2>15 DEF RemotePaths
<1> QED BY <1>6, <1>7, <1>8

\* The parts of a remote path below another one are names.
LEMMA NamesBelow ==
    ASSUME NEW root \in RemotePaths, NEW new \in RemotePaths, Panes!IsStrictPrefix(root, new),
           NEW rest, rest = SubSeq(new, Len(root) + 1, Len(new))
    PROVE  /\ rest \in Seq(Parts) /\ rest # << >> /\ new = root \o rest
           /\ \A k \in 1 .. Len(rest) : rest[k] \in Filled
<1>1. root \in Seq(Parts) /\ new \in Seq(Parts) /\ RemotePlaced(root) /\ RemotePlaced(new)
  BY DEF RemotePaths
<1>2. Len(root) < Len(new) /\ Len(root) \in Nat /\ Len(new) \in Nat /\ new = root \o rest
  BY <1>1, BelowIs
<1>3. Len(root) \in 0 .. Len(new) BY <1>2
<1>4. rest \in Seq(Parts) /\ Len(rest) = Len(new) - Len(root)
      /\ \A k \in 1 .. Len(new) - Len(root) : rest[k] = new[Len(root) + k]
  BY <1>1, <1>3, EndIs
<1>5. ASSUME NEW k \in 1 .. Len(rest) PROVE new[Len(root) + k] \in Filled
  <2>1. Len(root) >= 1 /\ (Len(root) = 1 => root[1] \in Filled) BY <1>1 DEF RemotePlaced
  <2>2. CASE Len(root) + k >= 3
    <3>1. Len(root) + k \in 3 .. Len(new) BY <1>2, <1>4, <2>2
    <3> QED BY <1>1, <3>1 DEF RemotePlaced
  <2>3. CASE ~(Len(root) + k >= 3)
    <3>0. Len(root) \in Nat /\ Len(root) >= 1 /\ k \in Nat /\ k >= 1 BY <1>2, <1>4, <2>1
    <3>1. Len(root) = 1 /\ k = 1 BY <2>3, <3>0, OneAndOne, Zenon
    <3>2. new[1] = root[1]
      <4>1. \A m \in 1 .. Len(root) : (root \o rest)[m] = root[m] BY <1>1, <1>4, JoinedIs
      <4>2. (root \o rest)[1] = root[1] BY <3>1, <4>1
      <4> QED BY <1>2, <4>2
    <3>3. Len(new) >= 2 /\ new[1] \in Filled BY <1>2, <2>1, <3>1, <3>2
    <3>4. new[2] \in Filled BY <1>1, <3>3 DEF RemotePlaced
    <3> QED BY <3>1, <3>4
  <2> QED BY <2>2, <2>3
<1>6. \A k \in 1 .. Len(rest) : rest[k] \in Filled BY <1>4, <1>5
<1>7. rest # << >>
  <2>1. Len(rest) # 0 BY <1>2, <1>4
  <2> QED BY <2>1
<1> QED BY <1>2, <1>4, <1>6, <1>7

\* Below the root of Unix nothing mirrors, as that root keeps its slash.
LEMMA UnixRootIs ==
    ASSUME NEW place \in LocalFolders, place # Panes!Slash, NEW root, NEW folder,
           Panes!Trim(folder) = Panes!Slash
    PROVE  Panes!MirrorPath(folder, place, root) = Panes!Nowhere
<1>1. PICK t : t = Panes!Trim(place) OBVIOUS
<1>2. Stem(t) BY <1>1, FoldersAre
<1>3. t \in Seq(Parts) /\ Full(t) BY <1>2 DEF Stem
<1>4. t # Panes!Slash BY <1>3, SlashIs
<1>5. ~Panes!IsStrictPrefix(Panes!Slash, t)
  <2> SUFFICES ASSUME Panes!IsStrictPrefix(Panes!Slash, t) PROVE FALSE OBVIOUS
  <2>1. PICK more : more = SubSeq(t, Len(Panes!Slash) + 1, Len(t)) OBVIOUS
  <2>2. Panes!Slash \in Seq(Parts) /\ Len(Panes!Slash) = 2 BY SlashIs
  <2>3. 2 < Len(t) /\ Len(t) \in Nat /\ t = Panes!Slash \o more BY <1>3, <2>1, <2>2, BelowIs
  <2>4. Len(Panes!Slash) \in 0 .. Len(t) BY <2>2, <2>3
  <2>5. more \in Seq(Parts) BY <1>3, <2>1, <2>4, EndIs
  <2>6. \A k \in 1 .. Len(Panes!Slash) : (Panes!Slash \o more)[k] = Panes!Slash[k]
    BY <2>2, <2>5, JoinedIs
  <2>7. 2 \in 1 .. Len(Panes!Slash) /\ 2 \in 2 .. Len(t) BY <2>2, <2>3
  <2>8. t[2] = Panes!Slash[2] BY <2>3, <2>6, <2>7
  <2>9. t[2] \in Filled BY <1>3, <2>7 DEF Full
  <2> QED BY <2>8, <2>9, SlashIs
<1> QED BY <1>1, <1>4, <1>5 DEF Panes!MirrorPath

\* The way there and back: a local folder below the one that is mirrored is
\* mirrored by the remote one that it mirrors, or by none.
LEMMA ThereAndBack ==
    ASSUME NEW root \in RemotePaths, NEW new \in RemotePaths, NEW folder \in LocalFolders,
           NEW target, target = Panes!MirrorPath(root, new, folder), target # Panes!Nowhere,
           new # root, NEW place \in LocalFolders, place = Panes!CleanPath(target)
    PROVE  Panes!MirrorPath(folder, place, root) \in {new, Panes!Nowhere}
<1>0. Panes!Trim(root) = root /\ Panes!Trim(new) = new BY TrimRemote
<1>1. PICK f : f = Panes!Trim(folder) OBVIOUS
<1>2. f = Panes!Slash \/ Stem(f) BY <1>1, FoldersAre, SlashIs
<1>3. f \in Seq(Parts) /\ Len(f) >= 1 /\ Len(f) \in Nat BY <1>2, HasParts, Zenon
<1>4. PICK rest : rest = SubSeq(new, Len(root) + 1, Len(new)) OBVIOUS
<1>5. Panes!IsStrictPrefix(root, new) /\ target = f \o rest
  BY <1>0, <1>1, <1>4 DEF Panes!MirrorPath
<1>6. /\ rest \in Seq(Parts) /\ rest # << >> /\ new = root \o rest
      /\ \A k \in 1 .. Len(rest) : rest[k] \in Filled
  BY <1>4, <1>5, NamesBelow
<1>7. /\ target \in Seq(Parts) /\ Len(target) = Len(f) + Len(rest) /\ Len(rest) \in Nat
      /\ \A k \in 1 .. Len(f) : target[k] = f[k]
      /\ \A k \in 1 .. Len(rest) : target[Len(f) + k] = rest[k]
  BY <1>3, <1>5, <1>6, JoinedIs
<1>8. Len(rest) >= 1
  <2>1. Len(rest) # 0 BY <1>6
  <2> QED BY <1>7, <2>1
<1>9. CASE Stem(f)
  <2>1. Full(target)
    <3> SUFFICES ASSUME NEW n \in 2 .. Len(target) PROVE target[n] \in Filled BY DEF Full
    <3>1. CASE n <= Len(f)
      <4>1. n \in 2 .. Len(f) /\ n \in 1 .. Len(f) BY <1>3, <1>7, <3>1
      <4>2. f[n] \in Filled BY <1>9, <4>1 DEF Stem, Full
      <4> QED BY <1>7, <4>1, <4>2
    <3>2. CASE ~(n <= Len(f))
      <4>1. PICK k \in 1 .. Len(rest) : n = Len(f) + k
        <5>1. n - Len(f) \in 1 .. Len(rest) /\ n = Len(f) + (n - Len(f)) BY <1>3, <1>7, <3>2
        <5> QED BY <5>1
      <4> QED BY <1>6, <1>7, <4>1
    <3> QED BY <3>1, <3>2
  <2>2. Len(target) >= 2 /\ 2 \in 2 .. Len(target) BY <1>3, <1>7, <1>8
  <2>3. target[2] \in Filled BY <2>1, <2>2 DEF Full
  <2>4. place = target BY <1>7, <2>2, <2>3, CleanFull
  <2>5. target[Len(target)] \in Filled BY <1>7, <2>1, <2>2, LastFilled
  <2>6. Len(target) >= 1 BY <1>7, <2>2
  <2>7. Panes!Trim(target) = target BY <1>7, <2>5, <2>6, TrimFull
  <2>8. /\ Panes!IsStrictPrefix(f, f \o rest) /\ f \o rest # f
        /\ SubSeq(f \o rest, Len(f) + 1, Len(f \o rest)) = rest
    BY <1>3, <1>6, AddedBelow
  <2>9. /\ Panes!IsStrictPrefix(f, target) /\ target # f
        /\ SubSeq(target, Len(f) + 1, Len(target)) = rest
    BY <1>5, <2>8
  <2>10. Panes!MirrorPath(folder, target, root) = root \o rest
    BY <1>0, <1>1, <2>7, <2>9 DEF Panes!MirrorPath
  <2> QED BY <1>6, <2>4, <2>10
<1>10. CASE f = Panes!Slash
  <2>1. Len(f) = 2 /\ f[2] \notin Filled BY <1>10, SlashIs
  <2>2. target[2] = "" /\ target[2] = f[2]
    <3>1. 2 \in 1 .. Len(f) /\ 2 \in 1 .. Len(target) BY <1>7, <2>1
    <3>2. target[2] = f[2] /\ target[2] \in Parts BY <1>7, <3>1
    <3> QED BY <2>1, <3>2 DEF Parts
  <2>3. Len(target) > 2 /\ Len(target) # 1 BY <1>7, <1>8, <2>1
  <2>4. PICK end : end = SubSeq(target, 3, Len(target)) OBVIOUS
  <2>5. place = <<target[1]>> \o end BY <2>2, <2>3, <2>4 DEF Panes!CleanPath
  <2>6. end \in Seq(Parts) /\ Len(end) >= 1 /\ end[1] = target[3]
    <3>1. 2 \in 0 .. Len(target) BY <1>7, <2>3
    <3>2. SubSeq(target, 2 + 1, Len(target)) = end BY <2>4
    <3>3. end \in Seq(Parts) /\ Len(end) = Len(target) - 2
          /\ \A k \in 1 .. Len(target) - 2 : end[k] = target[2 + k]
      <4>1. /\ SubSeq(target, 2 + 1, Len(target)) \in Seq(Parts)
            /\ Len(SubSeq(target, 2 + 1, Len(target))) = Len(target) - 2
            /\ \A k \in 1 .. Len(target) - 2 : SubSeq(target, 2 + 1, Len(target))[k] = target[2 + k]
        BY <1>7, <3>1, EndIs
      <4> QED BY <3>2, <4>1
    <3>4. Len(target) - 2 >= 1 /\ 1 \in 1 .. Len(target) - 2 BY <1>7, <2>3
    <3> QED BY <3>3, <3>4
  <2>7. target[3] \in Filled
    <3>1. 1 \in 1 .. Len(rest) BY <1>7, <1>8
    <3>2. target[Len(f) + 1] \in Filled BY <1>6, <1>7, <3>1
    <3> QED BY <2>1, <3>2
  <2>8. place[2] \in Filled
    <3>1. target[1] \in Parts
      <4>1. 1 \in 1 .. Len(target) BY <1>7, <2>3
      <4> QED BY <1>7, <4>1
    <3>2. PICK a : a = <<target[1]>> OBVIOUS
    <3>3. a \in Seq(Parts) /\ Len(a) = 1 BY <3>1, <3>2, OneIs
    <3>6. (a \o end)[2] = end[1]
      <4>1. (a \o end)[Len(a) + 1] = end[1] BY <2>6, <3>3, AfterJoined, Zenon
      <4>2. Len(a) + 1 = 2 BY <3>3
      <4> QED BY <4>1, <4>2, Zenon
    <3> QED BY <2>5, <2>6, <2>7, <3>2, <3>6
  <2>9. place # Panes!Slash BY <2>8, SlashIs
  <2> QED BY <1>1, <1>10, <2>9, UnixRootIs
<1> QED BY <1>2, <1>9, <1>10

\* The panes' state, as the lemmas below need it.
Places ==
    /\ local \in LocalFolders /\ remote \in RemotePaths /\ asked \in Seq(RemotePaths)
    /\ mirrored \in BOOLEAN
Roots == mirrored => localRoot \in LocalFolders /\ remoteRoot \in RemotePaths
Marks == \A b \in bookmarks : b.local \in LocalFolders /\ b.remote \in RemotePaths
PanesInv == Places /\ Roots /\ Marks

LEMMA NowhereIs == Panes!Nowhere \notin RemotePaths
<1>1. Len(Panes!Nowhere) = 0 BY DEF Panes!Nowhere
<1>2. \A p \in RemotePaths : Len(p) \in Nat /\ Len(p) >= 1
  <2> SUFFICES ASSUME NEW p \in RemotePaths PROVE Len(p) \in Nat /\ Len(p) >= 1 OBVIOUS
  <2>1. p \in Seq(Parts) /\ RemotePlaced(p) BY DEF RemotePaths
  <2>2. Len(p) >= 1 BY <2>1 DEF RemotePlaced
  <2> QED BY <2>1, <2>2
<1>3. ~(0 >= 1) OBVIOUS
<1> QED BY <1>1, <1>2, <1>3

LEMMA PanesStart == Panes!Init => PanesInv
<1> SUFFICES ASSUME Panes!Init PROVE PanesInv OBVIOUS
<1>1. /\ local \in LocalFolders /\ remote = Panes!Dot /\ mirrored = FALSE
      /\ asked = <<Panes!Dot>> /\ bookmarks = {}
  BY DEF Panes!Init
<1>2. Panes!Dot \in RemotePaths BY FirstPathsAre
<1>3. asked \in Seq(RemotePaths) BY <1>1, <1>2, OneIs
<1>4. Places BY <1>1, <1>2, <1>3 DEF Places
<1>5. Roots BY <1>1 DEF Roots
<1>6. Marks BY <1>1 DEF Marks
<1> QED BY <1>4, <1>5, <1>6 DEF PanesInv

\* What the mirror of a local folder asks for.
LEMMA MirroredToIs ==
    ASSUME PanesInv, UNCHANGED <<mirrored, localRoot, remoteRoot>>, NEW dir \in LocalFolders
    PROVE  \/ Panes!MirroredTo(dir) = << >>
           \/ \E t \in RemotePaths : Panes!MirroredTo(dir) = <<t>> /\ t # remote'
<1> DEFINE target == Panes!MirrorPath(localRoot', dir, remoteRoot')
<1>1. CASE mirrored' /\ Panes!Asks(target)
  <2>1. localRoot' \in LocalFolders /\ remoteRoot' \in RemotePaths BY <1>1 DEF PanesInv, Roots
  <2>2. target \in RemotePaths \union {Panes!Nowhere} BY <2>1, MirroredIs
  <2> HIDE DEF target
  <2>3. target \in RemotePaths /\ target # remote' BY <1>1, <2>2 DEF Panes!Asks
  <2>4. Panes!MirroredTo(dir) = <<target>> BY <1>1 DEF Panes!MirroredTo, target
  <2> QED BY <2>3, <2>4
<1>2. CASE ~(mirrored' /\ Panes!Asks(target)) BY <1>2 DEF Panes!MirroredTo
<1> QED BY <1>1, <1>2

LEMMA MirroredToSeq ==
    ASSUME PanesInv, UNCHANGED <<mirrored, localRoot, remoteRoot>>, NEW dir \in LocalFolders
    PROVE  Panes!MirroredTo(dir) \in Seq(RemotePaths)
<1>1. CASE Panes!MirroredTo(dir) = << >> BY <1>1
<1>2. CASE Panes!MirroredTo(dir) # << >>
  <2>1. PICK t \in RemotePaths : Panes!MirroredTo(dir) = <<t>> BY <1>2, MirroredToIs
  <2>2. <<t>> \in Seq(RemotePaths) BY OneIs
  <2> QED BY <2>1, <2>2
<1> QED BY <1>1, <1>2

\* A local folder chosen: the local pane is there, and the mirror may ask.
LEMMA LocalPathSet ==
    ASSUME PanesInv, UNCHANGED <<mirrored, localRoot, remoteRoot>>, NEW dir,
           NEW waiting \in Seq(RemotePaths), Panes!SetLocalPath(dir, waiting)
    PROVE  local' \in LocalFolders /\ asked' \in Seq(RemotePaths)
<1>1. CASE Panes!CleanPath(dir) \in LocalFolders
  <2>1. PICK clean \in LocalFolders : clean = Panes!CleanPath(dir) BY <1>1
  <2>2. PICK more : more = Panes!MirroredTo(clean) OBVIOUS
  <2>3. more \in Seq(RemotePaths) BY <2>1, <2>2, MirroredToSeq
  <2>4. local' = clean /\ asked' = waiting \o more BY <1>1, <2>1, <2>2 DEF Panes!SetLocalPath
  <2> QED BY <2>1, <2>3, <2>4
<1>2. CASE Panes!CleanPath(dir) \notin LocalFolders
  BY <1>2 DEF Panes!SetLocalPath, PanesInv, Places
<1> QED BY <1>1, <1>2

\* The exception: at the remote root, the local pane follows to another folder
\* of the drive than its root.
AskedAfterDrive ==
    /\ Panes!AtDrive /\ remote' = remoteRoot
    /\ \E t \in RemotePaths : t # remoteRoot /\ asked' = Tail(asked) \o <<t>>

\* The answer to a listing asks for none, wherever the local pane follows, but
\* at the root of a drive.
LEMMA ListedIs ==
    ASSUME PanesInv, Panes!OnDirectoryListed
    PROVE  /\ asked # << >> /\ remote' = Head(asked) /\ local' \in LocalFolders
           /\ asked' = Tail(asked) \/ AskedAfterDrive
<1>1. /\ asked # << >> /\ remote' = Head(asked) /\ UNCHANGED <<mirrored, localRoot, remoteRoot>>
      /\ asked \in Seq(RemotePaths) /\ local \in LocalFolders
  BY DEF Panes!OnDirectoryListed, Panes!rootVars, PanesInv, Places
<1>2. remote' \in RemotePaths BY <1>1
<1> DEFINE target == Panes!MirrorPath(remoteRoot, remote', localRoot)
<1>3. CASE mirrored /\ target # Panes!Nowhere /\ target # local
  <2>1. localRoot \in LocalFolders /\ remoteRoot \in RemotePaths BY <1>3 DEF PanesInv, Roots
  <2>2. PICK new \in RemotePaths : new = remote' BY <1>2
  <2>3. PICK aim : aim = target OBVIOUS
  <2>4. aim = Panes!MirrorPath(remoteRoot, new, localRoot) /\ aim # Panes!Nowhere BY <1>3, <2>2, <2>3
  <2>5. Panes!SetLocalPath(aim, Tail(asked)) BY <1>3, <2>3 DEF Panes!OnDirectoryListed
  <2>6. CASE Panes!CleanPath(aim) \notin LocalFolders
    BY <1>1, <2>5, <2>6 DEF Panes!SetLocalPath
  <2>7. CASE Panes!CleanPath(aim) \in LocalFolders
    <3>1. PICK place \in LocalFolders : place = Panes!CleanPath(aim) BY <2>7
    <3>2. local' = place /\ asked' = Tail(asked) \o Panes!MirroredTo(place)
      BY <2>5, <3>1 DEF Panes!SetLocalPath
    <3>3. Tail(asked) \in Seq(RemotePaths) /\ Tail(asked) \o << >> = Tail(asked)
      <4>1. Tail(asked) \in Seq(RemotePaths) BY <1>1
      <4> QED BY <4>1
    <3>4. ASSUME Panes!MirrorPath(localRoot, place, remoteRoot) \in {new, Panes!Nowhere}
          PROVE  asked' = Tail(asked)
      <4>1. Panes!MirrorPath(localRoot', place, remoteRoot') \in {remote', Panes!Nowhere}
        BY <1>1, <2>2, <3>4
      <4>2. ~Panes!Asks(Panes!MirrorPath(localRoot', place, remoteRoot')) BY <4>1 DEF Panes!Asks
      <4>3. Panes!MirroredTo(place) = << >> BY <4>2 DEF Panes!MirroredTo
      <4> QED BY <3>2, <3>3, <4>3
    <3>5. CASE new # remoteRoot BY <1>1, <2>1, <2>4, <3>1, <3>2, <3>4, <3>5, ThereAndBack
    <3>6. CASE new = remoteRoot /\ ~Panes!AtDrive
      <4>1. Panes!Trim(localRoot) = localRoot BY <3>6 DEF Panes!AtDrive
      <4>2. aim = localRoot BY <2>4, <3>6, <4>1 DEF Panes!MirrorPath
      <4>3. place = localRoot BY <2>1, <3>1, <4>1, <4>2, FoldersAre
      <4>4. Panes!MirrorPath(localRoot, place, remoteRoot) = new
        BY <2>1, <3>6, <4>3, TrimRemote DEF Panes!MirrorPath
      <4> QED BY <1>1, <3>2, <3>4, <4>4
    <3>7. CASE new = remoteRoot /\ Panes!AtDrive
      <4>1. CASE Panes!MirroredTo(place) = << >> BY <1>1, <3>2, <3>3, <4>1
      <4>2. CASE Panes!MirroredTo(place) # << >>
        <5>1. PICK t \in RemotePaths : Panes!MirroredTo(place) = <<t>> /\ t # remote'
          BY <1>1, <4>2, MirroredToIs
        <5>2. AskedAfterDrive BY <2>2, <3>2, <3>7, <5>1 DEF AskedAfterDrive
        <5> QED BY <1>1, <3>2, <5>2
      <4> QED BY <4>1, <4>2
    <3> QED BY <3>5, <3>6, <3>7
  <2> QED BY <2>6, <2>7
<1>4. CASE ~(mirrored /\ target # Panes!Nowhere /\ target # local)
  BY <1>1, <1>4 DEF Panes!OnDirectoryListed
<1> QED BY <1>1, <1>3, <1>4

LEMMA PanesKept == PanesInv /\ Panes!Next => PanesInv'
<1> SUFFICES ASSUME PanesInv, Panes!Next PROVE PanesInv' OBVIOUS
<1>0. /\ local \in LocalFolders /\ remote \in RemotePaths /\ asked \in Seq(RemotePaths)
      /\ mirrored \in BOOLEAN /\ Marks
  BY DEF PanesInv, Places
<1>a. UNCHANGED <<mirrored, localRoot, remoteRoot>> => Roots' BY DEF PanesInv, Roots
<1>b. UNCHANGED bookmarks => Marks' BY <1>0 DEF Marks
<1>1. ASSUME Panes!LocalNavigation PROVE PanesInv'
  <2>1. /\ UNCHANGED <<remote, mirrored, localRoot, remoteRoot, bookmarks>>
        /\ \E dir \in LocalFolders : Panes!SetLocalPath(dir, asked)
    BY <1>1 DEF Panes!LocalNavigation, Panes!rootVars
  <2>2. local' \in LocalFolders /\ asked' \in Seq(RemotePaths) BY <1>0, <2>1, LocalPathSet
  <2>3. Places' BY <1>0, <2>1, <2>2 DEF Places
  <2> QED BY <1>a, <1>b, <2>1, <2>3 DEF PanesInv
<1>2. ASSUME Panes!RemoteNavigation PROVE PanesInv'
  <2>1. UNCHANGED <<local, remote, mirrored, localRoot, remoteRoot, bookmarks>>
    BY <1>2 DEF Panes!RemoteNavigation, Panes!rootVars
  <2>2. PICK dir \in RemotePaths : asked' = Append(asked, dir)
    <3>1. Panes!UpFrom(remote) \in RemotePaths BY <1>0, UpFromIs
    <3>2. \A name \in Names : Panes!RemoteJoin(remote, name) \in RemotePaths BY <1>0, RemoteJoinIs
    <3> QED BY <1>2, <3>1, <3>2 DEF Panes!RemoteNavigation, Panes!RequestRemoteList
  <2>3. asked' \in Seq(RemotePaths) BY <1>0, <2>2
  <2>4. Places' BY <1>0, <2>1, <2>3 DEF Places
  <2> QED BY <1>a, <1>b, <2>1, <2>4 DEF PanesInv
<1>3. ASSUME NEW on \in BOOLEAN, Panes!SetSyncBrowsing(on) PROVE PanesInv'
  <2>1. /\ mirrored' = on /\ UNCHANGED <<local, remote, asked, bookmarks>>
        /\ on => localRoot' = local /\ remoteRoot' = remote
    BY <1>3 DEF Panes!SetSyncBrowsing
  <2>2. Places' BY <1>0, <2>1 DEF Places
  <2>3. Roots' BY <1>0, <2>1 DEF Roots
  <2> QED BY <1>b, <2>1, <2>2, <2>3 DEF PanesInv
<1>4. ASSUME Panes!OnDirectoryListed PROVE PanesInv'
  <2>1. UNCHANGED <<mirrored, localRoot, remoteRoot, bookmarks>>
    BY <1>4 DEF Panes!OnDirectoryListed, Panes!rootVars
  <2>2. /\ asked # << >> /\ remote' = Head(asked) /\ local' \in LocalFolders
        /\ asked' = Tail(asked) \/ AskedAfterDrive
    BY <1>4, ListedIs
  <2>3. asked' \in Seq(RemotePaths) /\ remote' \in RemotePaths
    <3>1. Tail(asked) \in Seq(RemotePaths) /\ Head(asked) \in RemotePaths BY <1>0, <2>2
    <3>2. CASE asked' = Tail(asked) BY <2>2, <3>1, <3>2
    <3>3. CASE AskedAfterDrive
      <4>1. PICK t \in RemotePaths : asked' = Tail(asked) \o <<t>> BY <3>3 DEF AskedAfterDrive
      <4>2. <<t>> \in Seq(RemotePaths) BY OneIs
      <4>3. Tail(asked) \o <<t>> \in Seq(RemotePaths) BY <3>1, <4>2, JoinedIs
      <4> QED BY <2>2, <3>1, <4>1, <4>3
    <3> QED BY <2>2, <3>2, <3>3
  <2>4. Places' BY <1>0, <2>1, <2>2, <2>3 DEF Places
  <2> QED BY <1>a, <1>b, <2>1, <2>4 DEF PanesInv
<1>5. ASSUME Panes!ListingFailed PROVE PanesInv'
  <2>1. /\ UNCHANGED <<local, remote, mirrored, localRoot, remoteRoot, bookmarks>>
        /\ asked # << >> /\ asked' = Tail(asked)
    BY <1>5 DEF Panes!ListingFailed, Panes!rootVars
  <2>2. asked' \in Seq(RemotePaths) BY <1>0, <2>1
  <2>3. Places' BY <1>0, <2>1, <2>2 DEF Places
  <2> QED BY <1>a, <1>b, <2>1, <2>3 DEF PanesInv
<1>6. ASSUME Panes!AddBookmark PROVE PanesInv'
  <2>1. /\ UNCHANGED <<local, remote, mirrored, localRoot, remoteRoot, asked>>
        /\ bookmarks' = bookmarks \union {[local |-> local, remote |-> remote]}
    BY <1>6 DEF Panes!AddBookmark, Panes!rootVars
  <2>2. Places' BY <1>0, <2>1 DEF Places
  <2>3. Marks' BY <1>0, <2>1 DEF Marks
  <2> QED BY <1>a, <2>1, <2>2, <2>3 DEF PanesInv
<1>7. ASSUME NEW b \in bookmarks, Panes!NavigateToBookmark(b) PROVE PanesInv'
  <2>1. /\ UNCHANGED <<remote, mirrored, localRoot, remoteRoot, bookmarks>>
        /\ local' = b.local /\ asked' = asked \o Panes!MirroredTo(b.local) \o <<b.remote>>
    BY <1>7 DEF Panes!NavigateToBookmark, Panes!rootVars
  <2>2. b.local \in LocalFolders /\ b.remote \in RemotePaths BY <1>0 DEF Marks
  <2>3. PICK more : more = Panes!MirroredTo(b.local) OBVIOUS
  <2>4. more \in Seq(RemotePaths) BY <2>1, <2>2, <2>3, MirroredToSeq
  <2>5. <<b.remote>> \in Seq(RemotePaths) BY <2>2, OneIs
  <2>6. asked' \in Seq(RemotePaths) BY <1>0, <2>1, <2>3, <2>4, <2>5
  <2>7. Places' BY <1>0, <2>1, <2>2, <2>6 DEF Places
  <2> QED BY <1>a, <1>b, <2>1, <2>7 DEF PanesInv
<1>8. ASSUME Panes!OnSyncClicked \/ Panes!OnSyncListingReady PROVE PanesInv'
  <2>1. UNCHANGED <<local, remote, mirrored, localRoot, remoteRoot, asked, bookmarks>>
    BY <1>8 DEF Panes!OnSyncClicked, Panes!OnSyncListingReady, Panes!rootVars
  <2>2. Places' BY <1>0, <2>1 DEF Places
  <2> QED BY <1>a, <1>b, <2>1, <2>2 DEF PanesInv
<1>9. ASSUME Panes!OnOperationFinished PROVE PanesInv'
  <2>1. UNCHANGED <<local, remote, mirrored, localRoot, remoteRoot, bookmarks>>
        /\ asked' = Append(asked, remote)
    BY <1>9 DEF Panes!OnOperationFinished, Panes!RequestRemoteList, Panes!rootVars
  <2>2. asked' \in Seq(RemotePaths) BY <1>0, <2>1
  <2>3. Places' BY <1>0, <2>1, <2>2 DEF Places
  <2> QED BY <1>a, <1>b, <2>1, <2>3 DEF PanesInv
<1> QED BY <1>1, <1>2, <1>3, <1>4, <1>5, <1>6, <1>7, <1>8, <1>9
     DEF Panes!Next, Panes!UserActs, Panes!UserDoes, Panes!SessionAnswers

\* One more at the end of a sequence.
LEMMA AppendedIs ==
    ASSUME NEW S, NEW s \in Seq(S), NEW t \in S, NEW more, more = s \o <<t>>
    PROVE  more # << >> /\ Panes!Front(more) = s /\ Panes!Last(more) = t
<1>0. <<t>> \in Seq(S) /\ Len(<<t>>) = 1 /\ <<t>>[1] = t BY OneIs
<1>1. /\ more \in Seq(S) /\ Len(more) = Len(s) + 1 /\ Len(s) \in Nat
      /\ \A k \in 1 .. Len(s) : more[k] = s[k]
      /\ more[Len(s) + 1] = t
  <2>1. PICK w : w = <<t>> OBVIOUS
  <2>2. w \in Seq(S) /\ Len(w) = 1 /\ w[1] = t BY <1>0, <2>1
  <2>3. PICK j : j = s \o w OBVIOUS
  <2>4. s \o w \in Seq(S) /\ Len(s \o w) = Len(s) + Len(w) /\ Len(s) \in Nat BY <2>2, JoinedIs, Zenon
  <2>5. \A k \in 1 .. Len(s) : (s \o w)[k] = s[k] BY <2>2, JoinedIs, Zenon
  <2>6. 1 >= 1 OBVIOUS
  <2>7. (s \o w)[Len(s) + 1] = w[1] BY <2>2, <2>6, AfterJoined, Zenon
  <2>8. /\ j \in Seq(S) /\ Len(j) = Len(s) + 1 /\ Len(s) \in Nat /\ j[Len(s) + 1] = t
        /\ \A k \in 1 .. Len(s) : j[k] = s[k]
    BY <2>2, <2>3, <2>4, <2>5, <2>7
  <2>9. j = more BY <2>1, <2>3
  <2> QED BY <2>8, <2>9
<1>2. more # << >> BY <1>1
<1>3. Panes!Last(more) = t BY <1>1 DEF Panes!Last
<1>4. Len(more) - 1 = Len(s) /\ Len(s) \in 0 .. Len(more) BY <1>1
<1>5. SubSeq(more, 1, Len(s)) = s
  <2>1. PICK q : q = SubSeq(more, 1, Len(s)) OBVIOUS
  <2>2. q \in Seq(S) /\ Len(q) = Len(s) /\ \A k \in 1 .. Len(s) : q[k] = more[k]
    BY <1>1, <1>4, <2>1, StartIs
  <2>3. \A k \in 1 .. Len(q) : q[k] = s[k] BY <1>1, <2>2
  <2>4. q = s BY <2>2, <2>3, SameParts
  <2> QED BY <2>1, <2>4
<1> QED BY <1>2, <1>3, <1>4, <1>5 DEF Panes!Front

LEMMA NoEchoNow == PanesInv => Panes!NoEcho
<1> SUFFICES ASSUME PanesInv, Panes!SessionAnswers
             PROVE  \/ Panes!IsSuffix(asked', asked)
                    \/ /\ Panes!AtDrive /\ remote' = remoteRoot /\ asked' # << >>
                       /\ Panes!Front(asked') = Tail(asked) /\ Panes!Last(asked') # remoteRoot
  BY DEF Panes!NoEcho
<1>0. asked \in Seq(RemotePaths) BY DEF PanesInv, Places
<1>1. CASE Panes!OnDirectoryListed
  <2>1. asked # << >> /\ (asked' = Tail(asked) \/ AskedAfterDrive) BY <1>1, ListedIs
  <2>2. CASE asked' = Tail(asked) BY <1>0, <2>1, <2>2, RestIs
  <2>3. CASE AskedAfterDrive
    <3>1. PICK t \in RemotePaths : t # remoteRoot /\ asked' = Tail(asked) \o <<t>>
      BY <2>3 DEF AskedAfterDrive
    <3>2. PICK more : more = asked' OBVIOUS
    <3>3. Tail(asked) \in Seq(RemotePaths) BY <1>0, <2>1
    <3>4. more # << >> /\ Panes!Front(more) = Tail(asked) /\ Panes!Last(more) = t
      BY <3>1, <3>2, <3>3, AppendedIs
    <3> QED BY <2>3, <3>1, <3>2, <3>4 DEF AskedAfterDrive
  <2> QED BY <2>1, <2>2, <2>3
<1>2. CASE Panes!ListingFailed
  <2>1. asked # << >> /\ asked' = Tail(asked) BY <1>2 DEF Panes!ListingFailed
  <2> QED BY <1>0, <2>1, RestIs
<1>3. CASE Panes!OnSyncListingReady
  <2>1. asked' = asked BY <1>3 DEF Panes!OnSyncListingReady
  <2>2. Panes!IsSuffix(asked, asked)
    <3>1. \A s : Panes!IsPrefix(s, s) <=> Len(s) <= Len(s) BY DEF Panes!IsPrefix
    <3>2. Panes!Reverse(asked) = [k \in 1 .. Len(asked) |-> asked[(Len(asked) - k) + 1]] BY DEF Panes!Reverse
    <3>3. Len(asked) \in Nat BY <1>0
    <3>4. Len(Panes!Reverse(asked)) = Len(asked) BY <3>2, <3>3
    <3> QED BY <3>1, <3>3, <3>4 DEF Panes!IsSuffix
  <2> QED BY <2>1, <2>2
<1> QED BY <1>1, <1>2, <1>3 DEF Panes!SessionAnswers

\* For any names of remote directories at any depth, the folders of a drive and
\* of a tree of Unix, any of them as the current directory, and any number of
\* bookmarks and of listings that wait: what answers a listing never asks for
\* another one, but where a drive is mirrored from its root on; and what is
\* asked for there is not the remote root, whose answer alone asks again.  So
\* the panes of synchronized browsing do not send each other back and forth.
THEOREM PanesRest == MCSpec => NoEcho
<1> DEFINE I == op = "panes" => PanesInv
           A == op = "panes" => Panes!NoEcho
<1>1. MCInit => I BY PanesStart DEF MCInit
<1>2. I /\ [MCNext]_mcVars => I'
  <2> SUFFICES ASSUME I, [MCNext]_mcVars, op' = "panes" PROVE PanesInv' OBVIOUS
  <2>1. CASE InPanes(Panes!Next) BY <2>1, PanesKept DEF InPanes
  <2>2. CASE UNCHANGED mcVars
    <3>1. UNCHANGED <<op, local, remote, mirrored, localRoot, remoteRoot, asked, bookmarks>>
      BY <2>2 DEF mcVars, panesVars
    <3> QED BY <3>1 DEF PanesInv, Places, Roots, Marks
  <2>3. CASE Mains(Next) \/ Tables(TableNext) \/ Browsers(Browser!Next)
    <3>1. op \in {"main", "table", "browser"} /\ op' = op BY <2>3 DEF Mains, Tables, Browsers
    <3> QED BY <3>1
  <2> QED BY <2>1, <2>2, <2>3 DEF MCNext
<1>3. I /\ [MCNext]_mcVars => [A]_mcVars BY NoEchoNow
<1> HIDE DEF I, A
<1>4. MCSpec => [][A]_mcVars BY <1>1, <1>2, <1>3, PTL DEF MCSpec
<1> QED BY <1>4 DEF NoEcho, A
=============================================================================
