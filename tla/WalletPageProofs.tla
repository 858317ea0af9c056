-------------------------- MODULE WalletPageProofs --------------------------
(***************************************************************************)
(* The wallet's page for every number of wallets, timers, passphrases and  *)
(* sessions.                                                               *)
(***************************************************************************)
EXTENDS WalletPage, FiniteSetTheorems, TLAPS

\* What a step of the session leaves of the types when no wallet is generated.
LEMMA KeysGrow ==
  ASSUME NEW m \in Nat, NEW n \in Nat, m <= n
  PROVE  KeysOf(m) \subseteq KeysOf(n)
<1>1. 1..m \subseteq 1..n  OBVIOUS
<1> QED BY <1>1 DEF KeysOf

\* A passphrase without its outer spaces is a passphrase, and depends on its text only.
LEMMA Trimmed ==
  /\ \A t \in Typed : trim(t) \in Typed /\ trim(t) = [text |-> t.text, spaces |-> FALSE]
  /\ \A t, u \in Typed : t.text = u.text => trim(t) = trim(u)
<1>1. \A t \in Typed : trim(t) \in Typed /\ trim(t) = [text |-> t.text, spaces |-> FALSE]
  <2> SUFFICES ASSUME NEW t \in Typed
               PROVE  trim(t) \in Typed /\ trim(t) = [text |-> t.text, spaces |-> FALSE]
    OBVIOUS
  <2>1. /\ trim(t) \in [text : Texts \cup {"", "short"}, spaces : BOOLEAN]
        /\ trim(t).text = t.text /\ trim(t).spaces = FALSE
    BY DEF Typed, trim
  <2>2. trim(t) = [text |-> trim(t).text, spaces |-> trim(t).spaces]
    BY <2>1
  <2> QED BY <2>1, <2>2 DEF Typed
<1> QED BY <1>1


\* The pages when n phrases have been generated.
PagesOf(n) ==
  [visible : SUBSET Sections, area : BOOLEAN, active : SUBSET Tabs, content : SUBSET Tabs,
   grid : 1..n \cup {Null}, shown : KeysOf(n) \cup {Null}, blur : BOOLEAN, banner : BOOLEAN,
   toast : BOOLEAN]

\* The pages that the handlers make of a page.
LEMMA PageTyped ==
  ASSUME NEW m, NEW p \in PagesOf(m)
  PROVE  /\ \A b \in BOOLEAN : /\ [p EXCEPT !.toast = b] \in PagesOf(m)
                               /\ [p EXCEPT !.banner = b] \in PagesOf(m)
                               /\ [p EXCEPT !.blur = b] \in PagesOf(m)
                               /\ [p EXCEPT !.area = b] \in PagesOf(m)
         /\ \A v \in SUBSET Sections : [p EXCEPT !.visible = v] \in PagesOf(m)
         /\ \A s \in SUBSET Tabs : [p EXCEPT !.content = s] \in PagesOf(m)
         /\ \A s, u \in SUBSET Tabs : [p EXCEPT !.active = s, !.content = u] \in PagesOf(m)
         /\ \A k \in KeysOf(m) \cup {Null} : [p EXCEPT !.shown = k] \in PagesOf(m)
         /\ \A n \in 1..m \cup {Null} : [p EXCEPT !.grid = n] \in PagesOf(m)
BY DEF PagesOf

\* A page stays one when more phrases are generated.
LEMMA PagesGrow ==
  ASSUME NEW m \in Nat, NEW n \in Nat, m <= n
  PROVE  PagesOf(m) \subseteq PagesOf(n)
<1>1. 1..m \subseteq 1..n /\ KeysOf(m) \subseteq KeysOf(n)  BY KeysGrow
<1> QED BY <1>1 DEF PagesOf

\* TypeOK, with the sets that grow given by the number of phrases.
LEMMA TypeIs ==
  TypeOK <=>
    /\ wasm \in {"loading", "ready", "failed"}
    /\ wallet = Null \/ wallet \in [phrase : 1..made \cup {Null}, key : KeysOf(made)]
    /\ page \in PagesOf(made)
    /\ toasts \in 0..MaxTimers /\ deploys \in 0..MaxTimers /\ made \in 0..MaxWallets
    /\ clipboard = Null \/ clipboard \in [phrase : 1..made] \cup [address : KeysOf(made)]
BY DEF TypeOK, Pages, PagesOf, Keys

-----------------------------------------------------------------------------
(***************************************************************************)
(* What ScreenMatchesWallet needs besides itself: at most one section is   *)
(* visible, the backup screen is for a generated phrase, and a pending     *)
(* deploy timer has left the banner.                                       *)
(***************************************************************************)
OneScreen ==
  /\ page.visible \in {{}, {"setup"}, {"backup"}, {"wallet"}}
  /\ "backup" \in page.visible => wallet.phrase # Null
  /\ deploys > 0 => page.banner

\* Where the keys come from, in this session and in the log of all sessions.
KeysHaveOrigin ==
  /\ \A r \in log : /\ r.phrase # Null /\ r.typed \in Typed
                     /\ r.key = Key(r.phrase, trim(r.typed))
  /\ wallet # Null /\ wallet.phrase # Null =>
       typed \in Typed /\ wallet.key = Key(wallet.phrase, trim(typed))

\* The invariant of the page.
PageInv == TypeOK /\ OneScreen /\ ScreenMatchesWallet /\ RestoreModeShown /\ KeysHaveOrigin

\* Sections are exclusive, so one of them is as many as there can be.
LEMMA OneSection ==
  ASSUME page.visible \in {{}, {"setup"}, {"backup"}, {"wallet"}}
  PROVE  Cardinality(page.visible) <= 1
<1>1. Cardinality({}) = 0  BY FS_EmptySet
<1>2. \A x : Cardinality({x}) = 1  BY FS_Singleton
<1>3. Cardinality(page.visible) \in {0, 1}  BY <1>1, <1>2
<1> QED BY <1>3

\* The page as it is loaded.
LEMMA LoadedIsPage ==
  /\ \A n \in Nat : Loaded \in PagesOf(n)
  /\ Loaded.visible = {"setup"} /\ Loaded.active = {"mnemonic", "keys"}
  /\ Loaded.content = {"mnemonic", "keys"}
<1>1. /\ Loaded.visible = {"setup"} /\ Loaded.active = {"mnemonic", "keys"}
      /\ Loaded.content = {"mnemonic", "keys"}
  BY DEF Loaded
<1>2. \A n \in Nat : Loaded \in PagesOf(n)
  BY DEF Loaded, PagesOf, Sections, Tabs, RestoreTabs, WalletTabs
<1> QED BY <1>1, <1>2

\* The wallets that restoreWallet makes are well formed.
LEMMA RestorableTyped ==
  ASSUME TypeOK, NEW r \in Restorable
  PROVE  /\ [phrase |-> r.phrase, key |-> r.key] \in [phrase : 1..made \cup {Null}, key : KeysOf(made)]
         /\ r.key \in KeysOf(made)
         /\ r.phrase # Null => r.typed \in Typed /\ r.key = Key(r.phrase, trim(r.typed))
<1>1. CASE "mnemonic" \in page.active
  <2>1. PICK n \in 1..made, t \in Typed : r = [phrase |-> n, typed |-> t, key |-> Key(n, trim(t))]
    BY <1>1 DEF Restorable
  <2>2. r.phrase = n /\ r.typed = t /\ r.key = Key(n, trim(t))  BY <2>1
  <2>3. r.key \in KeysOf(made)  BY <2>2 DEF KeysOf
  <2> QED BY <2>2, <2>3
<1>2. CASE "mnemonic" \notin page.active
  <2>1. PICK k \in Keys : r = [phrase |-> Null, typed |-> Null, key |-> k]
    BY <1>2 DEF Restorable
  <2>2. r.phrase = Null /\ r.key = k  BY <2>1
  <2> QED BY <2>2 DEF Keys
<1> QED BY <1>1, <1>2

\* Every handler and timer keeps the types.
LEMMA PageTypeStep ==
  ASSUME TypeOK, OneScreen, ScreenMatchesWallet, [Next]_vars
  PROVE  TypeOK'
<1>0. /\ wasm \in {"loading", "ready", "failed"}
      /\ wallet = Null \/ wallet \in [phrase : 1..made \cup {Null}, key : KeysOf(made)]
      /\ page \in PagesOf(made)
      /\ toasts \in 0..MaxTimers /\ deploys \in 0..MaxTimers /\ made \in 0..MaxWallets
      /\ clipboard = Null \/ clipboard \in [phrase : 1..made] \cup [address : KeysOf(made)]
  BY TypeIs
<1>n. MaxTimers \in Nat /\ MaxWallets \in Nat /\ made \in Nat
  BY <1>0, WalletAssumption
<1>s. SUFFICES
      /\ wasm' \in {"loading", "ready", "failed"}
      /\ wallet' = Null \/ wallet' \in [phrase : 1..made' \cup {Null}, key : KeysOf(made')]
      /\ page' \in PagesOf(made')
      /\ toasts' \in 0..MaxTimers /\ deploys' \in 0..MaxTimers /\ made' \in 0..MaxWallets
      /\ clipboard' = Null \/ clipboard' \in [phrase : 1..made'] \cup [address : KeysOf(made')]
  BY DEF TypeOK, Pages, PagesOf, Keys
<1>f. /\ page.visible \subseteq Sections /\ page.content \subseteq Tabs
      /\ page.active \subseteq Tabs /\ page.area \in BOOLEAN /\ page.blur \in BOOLEAN
      /\ page.shown \in KeysOf(made) \cup {Null}
  BY <1>0 DEF PagesOf
<1>t. ASSUME NEW p \in PagesOf(made), showToast(p)
      PROVE  page' \in PagesOf(made) /\ toasts' \in 0..MaxTimers
  <2>1. page' \in PagesOf(made)
    BY <1>t, PageTyped DEF showToast
  <2>2. toasts' \in 0..MaxTimers
    BY <1>0, <1>n, <1>t DEF showToast
  <2> QED BY <2>1, <2>2
<1>v. \A o, n \in Sections : Show(o, n) \in PagesOf(made)
  <2>1. \A o, n \in Sections : (page.visible \ {o}) \cup {n} \in SUBSET Sections
    BY <1>f
  <2> QED BY <1>0, <2>1, PageTyped DEF Show
<1>b. {"setup", "backup", "wallet"} \subseteq Sections  BY DEF Sections
<1>1. CASE start
  BY <1>0, <1>1, <1>t DEF start
<1>2. CASE createWallet
  <2>1. CASE Refused
    BY <1>0, <1>t, <2>1 DEF Refused
  <2>2. CASE ~Refused
    <3>1. PICK t \in Typed :
            /\ wallet' = [phrase |-> made + 1, key |-> Key(made + 1, trim(t))]
            /\ page' = renderWalletInfo([Show("setup", "backup") EXCEPT !.grid = made + 1],
                         [phrase |-> made + 1, key |-> Key(made + 1, trim(t))])
            /\ made < MaxWallets /\ made' = made + 1
            /\ UNCHANGED <<wasm, toasts, deploys, clipboard>>
      BY <1>2, <2>2 DEF createWallet
    <3>2. made' \in Nat /\ made <= made' /\ made' \in 0..MaxWallets /\ made + 1 \in 1..made'
      BY <1>n, <3>1
    <3>3. Key(made + 1, trim(t)) \in KeysOf(made')
      BY <3>2 DEF KeysOf
    <3>4. Show("setup", "backup") \in PagesOf(made')
      BY <1>n, <1>v, <1>b, <3>2, PagesGrow
    <3>5. [Show("setup", "backup") EXCEPT !.grid = made + 1] \in PagesOf(made')
      BY <3>2, <3>4, PageTyped
    <3>6. page' = [[Show("setup", "backup") EXCEPT !.grid = made + 1]
                     EXCEPT !.shown = Key(made + 1, trim(t))]
      BY <3>1 DEF renderWalletInfo
    <3>7. page' \in PagesOf(made')
      BY <3>3, <3>5, <3>6, PageTyped
    <3>8. wallet' \in [phrase : 1..made' \cup {Null}, key : KeysOf(made')]
      BY <3>1, <3>2, <3>3
    <3>9. clipboard' = Null \/ clipboard' \in [phrase : 1..made'] \cup [address : KeysOf(made')]
      <4>1. 1..made \subseteq 1..made' /\ KeysOf(made) \subseteq KeysOf(made')
        BY <1>n, <3>2, KeysGrow
      <4> QED BY <1>0, <3>1, <4>1
    <3> QED BY <1>0, <3>1, <3>2, <3>7, <3>8, <3>9
  <2> QED BY <2>1, <2>2
<1>3. CASE ToggleRestore
  BY <1>0, <1>3, <1>f, PageTyped DEF ToggleRestore
<1>4. CASE ClickRestoreTab
  <2>1. PICK mode \in RestoreTabs : page' = ActivateTab(switchRestoreTab(mode), mode)
    BY <1>4 DEF ClickRestoreTab
  <2> DEFINE q == switchRestoreTab(mode)
  <2>2. (page.active \ RestoreTabs) \cup {mode} \in SUBSET Tabs
        /\ (page.content \ RestoreTabs) \cup {mode} \in SUBSET Tabs
    BY <1>f DEF Tabs
  <2>3. q \in PagesOf(made)
    BY <1>0, <2>2, PageTyped DEF switchRestoreTab
  <2>4. {mode} \in SUBSET Tabs /\ q.content \ WalletTabs \in SUBSET Tabs
    BY <2>3 DEF Tabs, PagesOf
  <2> HIDE DEF q
  <2>5. [q EXCEPT !.active = {mode}, !.content = q.content \ WalletTabs] \in PagesOf(made)
    BY <2>3, <2>4, PageTyped
  <2>6. page' \in PagesOf(made)
    BY <2>1, <2>5 DEF ActivateTab, q
  <2> QED BY <1>0, <1>4, <2>6 DEF ClickRestoreTab
<1>5. CASE ClickWalletTab
  <2>1. PICK tab \in WalletTabs : page' = [ActivateTab(page, tab) EXCEPT !.content = @ \cup {tab}]
    BY <1>5 DEF ClickWalletTab
  <2> DEFINE q == ActivateTab(page, tab)
  <2>2. {tab} \in SUBSET Tabs /\ page.content \ WalletTabs \in SUBSET Tabs
    BY <1>f DEF Tabs
  <2>3. q \in PagesOf(made)
    BY <1>0, <2>2, PageTyped DEF ActivateTab
  <2>4. q.content \cup {tab} \in SUBSET Tabs
    BY <2>2, <2>3 DEF PagesOf
  <2> HIDE DEF q
  <2>5. [q EXCEPT !.content = q.content \cup {tab}] \in PagesOf(made)
    BY <2>3, <2>4, PageTyped
  <2>6. page' \in PagesOf(made)
    BY <2>1, <2>5 DEF q
  <2> QED BY <1>0, <1>5, <2>6 DEF ClickWalletTab
<1>6. CASE restoreWallet
  <2>1. CASE Refused
    BY <1>0, <1>t, <2>1 DEF Refused
  <2>2. CASE ~Refused
    <3>1. PICK r \in Restorable :
            /\ wallet' = [phrase |-> r.phrase, key |-> r.key]
            /\ showToast(renderWalletInfo(Show("setup", "wallet"), [phrase |-> r.phrase, key |-> r.key]))
            /\ UNCHANGED <<wasm, deploys, clipboard, made, log>>
      BY <1>6, <2>2 DEF restoreWallet
    <3>2. [phrase |-> r.phrase, key |-> r.key] \in [phrase : 1..made \cup {Null}, key : KeysOf(made)]
          /\ r.key \in KeysOf(made)
      BY RestorableTyped
    <3>3. Show("setup", "wallet") \in PagesOf(made)  BY <1>v, <1>b
    <3>4. [Show("setup", "wallet") EXCEPT !.shown = r.key] \in PagesOf(made)
      BY <3>2, <3>3, PageTyped
    <3>5. page' \in PagesOf(made) /\ toasts' \in 0..MaxTimers
      BY <1>t, <3>1, <3>4 DEF renderWalletInfo
    <3> QED BY <1>0, <3>1, <3>2, <3>5
  <2> QED BY <2>1, <2>2
<1>7. CASE CopyMnemonic
  <2>1. page' \in PagesOf(made) /\ toasts' \in 0..MaxTimers
    BY <1>0, <1>7, <1>t DEF CopyMnemonic
  <2>2. "backup" \in page.visible  BY <1>7 DEF CopyMnemonic, Clickable
  <2>3. wallet # Null /\ wallet.phrase # Null
    BY <2>2 DEF OneScreen, ScreenMatchesWallet
  <2>4. wallet.phrase \in 1..made
    BY <1>0, <2>3
  <2>5. clipboard' = Null \/ clipboard' \in [phrase : 1..made] \cup [address : KeysOf(made)]
    BY <1>0, <1>7, <2>4 DEF CopyMnemonic
  <2> QED BY <1>0, <1>7, <2>1, <2>5 DEF CopyMnemonic
<1>8. CASE ConfirmBackup
  BY <1>0, <1>8, <1>t, <1>v, <1>b DEF ConfirmBackup
<1>9. CASE Reveal
  BY <1>0, <1>9, <1>f, PageTyped DEF Reveal
<1>10. CASE CopyAddress
  <2>1. page' \in PagesOf(made) /\ toasts' \in 0..MaxTimers
    BY <1>0, <1>10, <1>t DEF CopyAddress
  <2>2. page.shown \in KeysOf(made)
    <3>1. "wallet" \in page.visible  BY <1>10 DEF CopyAddress, Clickable
    <3>2. wallet # Null /\ page.shown = wallet.key
      BY <3>1 DEF OneScreen, ScreenMatchesWallet
    <3> QED BY <1>0, <3>2
  <2>3. clipboard' = Null \/ clipboard' \in [phrase : 1..made] \cup [address : KeysOf(made)]
    BY <1>0, <1>10, <2>2 DEF CopyAddress
  <2> QED BY <1>0, <1>10, <2>1, <2>3 DEF CopyAddress
<1>11. CASE handleDeploy
  <2>1. [page EXCEPT !.banner = TRUE] \in PagesOf(made)
    BY <1>0, PageTyped
  <2>2. page' \in PagesOf(made) /\ toasts' \in 0..MaxTimers
    BY <1>11, <1>t, <2>1 DEF handleDeploy
  <2>3. deploys' \in 0..MaxTimers
    BY <1>0, <1>n, <1>11 DEF handleDeploy
  <2> QED BY <1>0, <1>11, <2>2, <2>3 DEF handleDeploy
<1>12. CASE DeployTimer
  <2>1. page.visible \ {"wallet"} \in SUBSET Sections  BY <1>f
  <2>2. page' \in PagesOf(made)
    BY <1>0, <1>12, <2>1, PageTyped DEF DeployTimer
  <2>3. deploys' \in 0..MaxTimers
    BY <1>0, <1>n, <1>12 DEF DeployTimer
  <2> QED BY <1>0, <1>12, <2>2, <2>3 DEF DeployTimer
<1>13. CASE ToastTimer
  <2>1. page' \in PagesOf(made)
    BY <1>0, <1>13, PageTyped DEF ToastTimer
  <2>2. toasts' \in 0..MaxTimers
    BY <1>0, <1>n, <1>13 DEF ToastTimer
  <2> QED BY <1>0, <1>13, <2>1, <2>2 DEF ToastTimer
<1>14. CASE Reload
  BY <1>0, <1>n, <1>14, LoadedIsPage DEF Reload
<1>15. CASE UNCHANGED vars
  BY <1>0, <1>15 DEF vars
<1> QED BY <1>1, <1>2, <1>3, <1>4, <1>5, <1>6, <1>7, <1>8, <1>9, <1>10, <1>11, <1>12, <1>13,
           <1>14, <1>15
        DEF Next, confirmLogout, BrowserReload

-----------------------------------------------------------------------------
\* Every handler and timer keeps the screen in step with the wallet.
LEMMA ScreenStep ==
  ASSUME TypeOK, OneScreen, ScreenMatchesWallet, RestoreModeShown, [Next]_vars
  PROVE  OneScreen' /\ ScreenMatchesWallet' /\ RestoreModeShown'
<1>0. page \in PagesOf(made) /\ deploys \in Nat /\ made \in 0..MaxWallets
  BY TypeIs, WalletAssumption
<1>f. /\ page.visible \subseteq Sections /\ page.content \subseteq Tabs
      /\ page.active \subseteq Tabs /\ page.banner \in BOOLEAN
  BY <1>0 DEF PagesOf
<1>c. ASSUME page'.visible \in {{}, {"setup"}, {"backup"}, {"wallet"}}
      PROVE  Cardinality(page'.visible) <= 1
  <2>1. Cardinality({}) = 0  BY FS_EmptySet
  <2>2. \A x : Cardinality({x}) = 1  BY FS_Singleton
  <2>3. Cardinality(page'.visible) \in {0, 1}  BY <1>c, <2>1, <2>2
  <2> QED BY <2>3
\* Steps that leave the sections alone, the tabs too unless the setup is hidden.
<1>q. ASSUME UNCHANGED wallet,
             page'.visible = page.visible, page'.grid = page.grid, page'.shown = page.shown,
             page.banner => page'.banner,
             deploys' > 0 => page'.banner,
             "setup" \in page.visible => page'.active = page.active /\ page'.content = page.content
      PROVE  OneScreen' /\ ScreenMatchesWallet' /\ RestoreModeShown'
  <2>1. OneScreen'  BY <1>q DEF OneScreen
  <2>2. ScreenMatchesWallet'  BY <1>q DEF ScreenMatchesWallet
  <2>3. RestoreModeShown'  BY <1>q DEF RestoreModeShown
  <2> QED BY <2>1, <2>2, <2>3
<1>t. ASSUME showToast(page), UNCHANGED <<wallet, deploys>>
      PROVE  OneScreen' /\ ScreenMatchesWallet' /\ RestoreModeShown'
  <2>1. /\ page'.visible = page.visible /\ page'.grid = page.grid /\ page'.shown = page.shown
        /\ page'.banner = page.banner /\ page'.active = page.active /\ page'.content = page.content
    BY <1>0, <1>t DEF showToast, PagesOf
  <2> QED BY <1>q, <1>t, <2>1 DEF OneScreen
\* Steps that bring up one section, which is not the setup.
<1>v. ASSUME NEW s \in {"backup", "wallet"}, page'.visible = {s}, wallet' # Null,
             page'.shown = wallet'.key, UNCHANGED deploys, page'.banner = page.banner,
             s = "backup" => page'.grid = wallet'.phrase /\ wallet'.phrase # Null
      PROVE  OneScreen' /\ ScreenMatchesWallet' /\ RestoreModeShown'
  <2>1. OneScreen'  BY <1>v DEF OneScreen
  <2>2. "setup" \notin page'.visible  BY <1>v
  <2>3. ScreenMatchesWallet'
    <3>1. Cardinality(page'.visible) <= 1  BY <1>c, <2>1 DEF OneScreen
    <3>2. /\ "setup" \in page'.visible <=> wallet' = Null
          /\ "backup" \in page'.visible => page'.grid = wallet'.phrase /\ page'.shown = wallet'.key
          /\ "wallet" \in page'.visible => page'.shown = wallet'.key
          /\ page'.visible = {} => page'.banner
      BY <1>v, <2>2
    <3> QED BY <3>1, <3>2 DEF ScreenMatchesWallet
  <2>4. RestoreModeShown'  BY <2>2 DEF RestoreModeShown
  <2> QED BY <2>1, <2>3, <2>4
<1>1. CASE start
  <2>1. UNCHANGED <<wallet, deploys>>  BY <1>1 DEF start
  <2>2. CASE UNCHANGED page
    BY <1>q, <2>1, <2>2 DEF OneScreen
  <2>3. CASE showToast(page)
    BY <1>t, <2>1, <2>3
  <2> QED BY <1>1, <2>2, <2>3 DEF start
<1>2. CASE createWallet
  <2>1. CASE Refused
    BY <1>t, <2>1 DEF Refused
  <2>2. CASE ~Refused
    <3>1. PICK t \in Typed :
            /\ wallet' = [phrase |-> made + 1, key |-> Key(made + 1, trim(t))]
            /\ page' = renderWalletInfo([Show("setup", "backup") EXCEPT !.grid = made + 1],
                         [phrase |-> made + 1, key |-> Key(made + 1, trim(t))])
            /\ made < MaxWallets /\ made' = made + 1 /\ UNCHANGED deploys
      BY <1>2, <2>2 DEF createWallet
    <3>2. page.visible = {"setup"}
      BY <1>2 DEF createWallet, Clickable, OneScreen
    <3>3. page' = [[[page EXCEPT !.visible = (page.visible \ {"setup"}) \cup {"backup"}]
                      EXCEPT !.grid = made + 1] EXCEPT !.shown = Key(made + 1, trim(t))]
      BY <3>1 DEF renderWalletInfo, Show
    <3>4. /\ page'.visible = (page.visible \ {"setup"}) \cup {"backup"}
          /\ page'.grid = made + 1 /\ page'.shown = Key(made + 1, trim(t))
          /\ page'.banner = page.banner
      BY <1>0, <3>3 DEF PagesOf
    <3>5. made + 1 \in 1..MaxWallets  BY <1>0, <3>1, WalletAssumption
    <3>6. made + 1 # Null  BY <3>5, WalletAssumption
    <3>7. wallet' # Null
      <4>1. Key(made + 1, trim(t)) \in KeysOf(MaxWallets)  BY <3>5 DEF KeysOf
      <4>2. wallet' \in [phrase : 1..MaxWallets \cup {Null}, key : KeysOf(MaxWallets)]
        BY <3>1, <3>5, <4>1
      <4> QED BY <4>2, WalletAssumption
    <3>8. page'.visible = {"backup"}  BY <3>2, <3>4
    <3>9. wallet'.phrase = made + 1 /\ wallet'.key = Key(made + 1, trim(t))  BY <3>1
    <3> QED BY <1>v, <3>1, <3>4, <3>6, <3>7, <3>8, <3>9
  <2> QED BY <2>1, <2>2
<1>3. CASE ToggleRestore
  <2>1. /\ page'.visible = page.visible /\ page'.grid = page.grid /\ page'.shown = page.shown
        /\ page'.banner = page.banner /\ page'.active = page.active /\ page'.content = page.content
        /\ UNCHANGED <<wallet, deploys>>
    BY <1>0, <1>3 DEF ToggleRestore, PagesOf
  <2> QED BY <1>q, <2>1 DEF OneScreen
<1>4. CASE ClickRestoreTab
  <2>1. PICK mode \in RestoreTabs : page' = ActivateTab(switchRestoreTab(mode), mode)
    BY <1>4 DEF ClickRestoreTab
  <2> DEFINE q == switchRestoreTab(mode)
  <2>2. /\ q.visible = page.visible /\ q.grid = page.grid /\ q.shown = page.shown
        /\ q.banner = page.banner /\ q.content = (page.content \ RestoreTabs) \cup {mode}
        /\ q \in PagesOf(made)
    <3>1. (page.active \ RestoreTabs) \cup {mode} \in SUBSET Tabs
          /\ (page.content \ RestoreTabs) \cup {mode} \in SUBSET Tabs
      BY <1>f DEF Tabs
    <3>2. q \in PagesOf(made)
      BY <1>0, <3>1, PageTyped DEF switchRestoreTab
    <3>3. /\ q.visible = page.visible /\ q.grid = page.grid /\ q.shown = page.shown
          /\ q.banner = page.banner /\ q.content = (page.content \ RestoreTabs) \cup {mode}
      BY <1>0 DEF switchRestoreTab, PagesOf
    <3> QED BY <3>2, <3>3
  <2> HIDE DEF q
  <2>3. page' = [q EXCEPT !.active = {mode}, !.content = q.content \ WalletTabs]
    BY <2>1 DEF ActivateTab, q
  <2>4. /\ page'.visible = page.visible /\ page'.grid = page.grid /\ page'.shown = page.shown
        /\ page'.banner = page.banner /\ page'.active = {mode}
        /\ page'.content = q.content \ WalletTabs
    BY <2>2, <2>3 DEF PagesOf
  <2>5. page'.content = {mode}
    BY <1>f, <2>2, <2>4 DEF Tabs, RestoreTabs, WalletTabs
  <2>6. RestoreModeShown'
    BY <2>4, <2>5 DEF RestoreModeShown, RestoreTabs
  <2>7. UNCHANGED <<wallet, deploys>>  BY <1>4 DEF ClickRestoreTab
  <2>8. OneScreen'  BY <2>4, <2>7 DEF OneScreen
  <2>9. ScreenMatchesWallet'  BY <2>4, <2>7 DEF ScreenMatchesWallet
  <2> QED BY <2>6, <2>8, <2>9
<1>5. CASE ClickWalletTab
  <2>1. PICK tab \in WalletTabs : page' = [ActivateTab(page, tab) EXCEPT !.content = @ \cup {tab}]
    BY <1>5 DEF ClickWalletTab
  <2>2. page.visible = {"wallet"}
    BY <1>5 DEF ClickWalletTab, Clickable, OneScreen
  <2> DEFINE q == ActivateTab(page, tab)
  <2>3. {tab} \in SUBSET Tabs /\ page.content \ WalletTabs \in SUBSET Tabs
    BY <1>f DEF Tabs
  <2>4. q \in PagesOf(made)
    BY <1>0, <2>3, PageTyped DEF ActivateTab
  <2>5. /\ q.visible = page.visible /\ q.grid = page.grid /\ q.shown = page.shown
        /\ q.banner = page.banner
    BY <1>0 DEF ActivateTab, PagesOf
  <2> HIDE DEF q
  <2>6. page' = [q EXCEPT !.content = q.content \cup {tab}]
    BY <2>1 DEF q
  <2>7. /\ page'.visible = page.visible /\ page'.grid = page.grid /\ page'.shown = page.shown
        /\ page'.banner = page.banner
    BY <2>4, <2>5, <2>6 DEF PagesOf
  <2>8. UNCHANGED <<wallet, deploys>>  BY <1>5 DEF ClickWalletTab
  <2> QED BY <1>q, <2>2, <2>7, <2>8 DEF OneScreen
<1>6. CASE restoreWallet
  <2>1. CASE Refused
    BY <1>t, <2>1 DEF Refused
  <2>2. CASE ~Refused
    <3>1. PICK r \in Restorable :
            /\ wallet' = [phrase |-> r.phrase, key |-> r.key]
            /\ showToast(renderWalletInfo(Show("setup", "wallet"), [phrase |-> r.phrase, key |-> r.key]))
            /\ UNCHANGED deploys
      BY <1>6, <2>2 DEF restoreWallet
    <3>2. page.visible = {"setup"}
      BY <1>6 DEF restoreWallet, Clickable, OneScreen
    <3>3. page' = [[[page EXCEPT !.visible = (page.visible \ {"setup"}) \cup {"wallet"}]
                      EXCEPT !.shown = r.key] EXCEPT !.toast = TRUE]
      BY <3>1 DEF renderWalletInfo, Show, showToast
    <3>4. /\ page'.visible = (page.visible \ {"setup"}) \cup {"wallet"}
          /\ page'.shown = r.key /\ page'.banner = page.banner
      BY <1>0, <3>3 DEF PagesOf
    <3>5. wallet' # Null
      <4>1. wallet' \in [phrase : 1..made \cup {Null}, key : KeysOf(made)]
        BY <3>1, RestorableTyped
      <4>2. 1..made \subseteq 1..MaxWallets /\ KeysOf(made) \subseteq KeysOf(MaxWallets)
        BY <1>0, WalletAssumption, KeysGrow
      <4>3. wallet' \in [phrase : 1..MaxWallets \cup {Null}, key : KeysOf(MaxWallets)]
        BY <4>1, <4>2
      <4> QED BY <4>3, WalletAssumption
    <3>6. page'.visible = {"wallet"}  BY <3>2, <3>4
    <3>7. wallet'.key = r.key  BY <3>1
    <3> QED BY <1>v, <3>1, <3>4, <3>5, <3>6, <3>7
  <2> QED BY <2>1, <2>2
<1>7. CASE CopyMnemonic
  BY <1>7, <1>t DEF CopyMnemonic
<1>8. CASE ConfirmBackup
  <2>1. page.visible = {"backup"}
    BY <1>8 DEF ConfirmBackup, Clickable, OneScreen
  <2>2. page' = [[page EXCEPT !.visible = (page.visible \ {"backup"}) \cup {"wallet"}]
                   EXCEPT !.toast = TRUE]
    BY <1>8 DEF ConfirmBackup, showToast, Show
  <2>3. /\ page'.visible = (page.visible \ {"backup"}) \cup {"wallet"}
        /\ page'.shown = page.shown /\ page'.banner = page.banner
    BY <1>0, <2>2 DEF PagesOf
  <2>4. page'.visible = {"wallet"}  BY <2>1, <2>3
  <2>5. UNCHANGED <<wallet, deploys>>  BY <1>8 DEF ConfirmBackup
  <2>6. wallet # Null /\ page.shown = wallet.key
    BY <2>1 DEF ScreenMatchesWallet
  <2> QED BY <1>v, <2>3, <2>4, <2>5, <2>6
<1>9. CASE Reveal
  <2>1. /\ page'.visible = page.visible /\ page'.grid = page.grid /\ page'.shown = page.shown
        /\ page'.banner = page.banner /\ page'.active = page.active /\ page'.content = page.content
        /\ UNCHANGED <<wallet, deploys>>
    BY <1>0, <1>9 DEF Reveal, PagesOf
  <2> QED BY <1>q, <2>1 DEF OneScreen
<1>10. CASE CopyAddress
  BY <1>10, <1>t DEF CopyAddress
<1>11. CASE handleDeploy
  <2>1. page' = [[page EXCEPT !.banner = TRUE] EXCEPT !.toast = TRUE] /\ UNCHANGED wallet
    BY <1>11 DEF handleDeploy, showToast
  <2>2. /\ page'.visible = page.visible /\ page'.grid = page.grid /\ page'.shown = page.shown
        /\ page'.banner = TRUE /\ page'.active = page.active /\ page'.content = page.content
    BY <1>0, <2>1 DEF PagesOf
  <2> QED BY <1>q, <2>1, <2>2
<1>12. CASE DeployTimer
  <2>1. page' = [page EXCEPT !.visible = page.visible \ {"wallet"}]
        /\ UNCHANGED wallet /\ deploys > 0
    BY <1>12 DEF DeployTimer
  <2>2. /\ page'.visible = page.visible \ {"wallet"}
        /\ page'.grid = page.grid /\ page'.shown = page.shown
        /\ page'.banner = page.banner /\ page'.active = page.active /\ page'.content = page.content
    BY <1>0, <2>1 DEF PagesOf
  <2>3. page'.banner  BY <2>1, <2>2 DEF OneScreen
  <2>4. page'.visible \in {{}, {"setup"}, {"backup"}, {"wallet"}}
    BY <2>2 DEF OneScreen
  <2>5. /\ "setup" \in page'.visible <=> "setup" \in page.visible
        /\ "backup" \in page'.visible => "backup" \in page.visible
        /\ "wallet" \notin page'.visible
    BY <2>2
  <2>6. OneScreen'  BY <2>1, <2>3, <2>4, <2>5 DEF OneScreen
  <2>7. ScreenMatchesWallet'
    BY <1>c, <2>1, <2>2, <2>3, <2>4, <2>5 DEF ScreenMatchesWallet
  <2>8. RestoreModeShown'  BY <2>2, <2>5 DEF RestoreModeShown
  <2> QED BY <2>6, <2>7, <2>8
<1>13. CASE ToastTimer
  <2>1. /\ page'.visible = page.visible /\ page'.grid = page.grid /\ page'.shown = page.shown
        /\ page'.banner = page.banner /\ page'.active = page.active /\ page'.content = page.content
        /\ UNCHANGED <<wallet, deploys>>
    BY <1>0, <1>13 DEF ToastTimer, PagesOf
  <2> QED BY <1>q, <2>1 DEF OneScreen
<1>14. CASE Reload
  <2>1. /\ wallet' = Null /\ deploys' = 0 /\ page' = Loaded
    BY <1>14 DEF Reload
  <2>2. /\ page'.visible = {"setup"} /\ page'.active = {"mnemonic", "keys"}
        /\ page'.content = {"mnemonic", "keys"}
    BY <2>1, LoadedIsPage
  <2>3. OneScreen'  BY <2>1, <2>2 DEF OneScreen
  <2>4. ScreenMatchesWallet'
    <3>1. Cardinality(page'.visible) <= 1  BY <1>c, <2>2
    <3> QED BY <2>1, <2>2, <3>1 DEF ScreenMatchesWallet
  <2>5. RestoreModeShown'
    <3>1. page'.content \cap RestoreTabs = {"mnemonic"}  BY <2>2 DEF RestoreTabs
    <3> QED BY <2>2, <3>1 DEF RestoreModeShown, RestoreTabs
  <2> QED BY <2>3, <2>4, <2>5
<1>15. CASE UNCHANGED vars
  BY <1>15, <1>q DEF vars, OneScreen
<1> QED BY <1>1, <1>2, <1>3, <1>4, <1>5, <1>6, <1>7, <1>8, <1>9, <1>10, <1>11, <1>12, <1>13,
           <1>14, <1>15
        DEF Next, confirmLogout, BrowserReload

\* Keys come from a phrase and a trimmed passphrase wherever they are made.
LEMMA OriginStep ==
  ASSUME TypeOK, KeysHaveOrigin, [Next]_vars
  PROVE  KeysHaveOrigin'
<1>0. made \in 0..MaxWallets  BY TypeIs
<1>a. ASSUME UNCHANGED <<wallet, typed, log>> PROVE KeysHaveOrigin'
  BY <1>a DEF KeysHaveOrigin
<1>1. CASE createWallet
  <2>1. CASE Refused
    BY <1>a, <2>1 DEF Refused
  <2>2. CASE ~Refused
    <3>1. PICK t \in Typed :
            /\ wallet' = [phrase |-> made + 1, key |-> Key(made + 1, trim(t))] /\ typed' = t
            /\ log' = log \cup {[phrase |-> made + 1, typed |-> t, key |-> Key(made + 1, trim(t))]}
      BY <1>1, <2>2 DEF createWallet
    <3>2. wallet'.phrase = made + 1 /\ wallet'.key = Key(made + 1, trim(t))  BY <3>1
    <3>n. made + 1 # Null
      <4>1. made < MaxWallets  BY <1>1, <2>2 DEF createWallet
      <4>2. made + 1 \in 1..MaxWallets  BY <1>0, <4>1, WalletAssumption
      <4> QED BY <4>2, WalletAssumption
    <3>3. \A r \in log' : /\ r.phrase # Null /\ r.typed \in Typed
                          /\ r.key = Key(r.phrase, trim(r.typed))
      BY <3>1, <3>n DEF KeysHaveOrigin
    <3> QED BY <3>1, <3>2, <3>3 DEF KeysHaveOrigin
  <2> QED BY <2>1, <2>2
<1>2. CASE restoreWallet
  <2>1. CASE Refused
    BY <1>a, <2>1 DEF Refused
  <2>2. CASE ~Refused
    <3>1. PICK r \in Restorable :
            /\ wallet' = [phrase |-> r.phrase, key |-> r.key] /\ typed' = r.typed
            /\ UNCHANGED log
      BY <1>2, <2>2 DEF restoreWallet
    <3>2. wallet'.phrase = r.phrase /\ wallet'.key = r.key  BY <3>1
    <3>3. r.phrase # Null => r.typed \in Typed /\ r.key = Key(r.phrase, trim(r.typed))
      BY RestorableTyped
    <3> QED BY <3>1, <3>2, <3>3 DEF KeysHaveOrigin
  <2> QED BY <2>1, <2>2
<1>3. CASE Reload
  BY <1>3 DEF Reload, KeysHaveOrigin
<1>4. CASE start \/ ToggleRestore \/ ClickRestoreTab \/ ClickWalletTab \/ CopyMnemonic
           \/ ConfirmBackup \/ Reveal \/ CopyAddress \/ handleDeploy \/ DeployTimer \/ ToastTimer
  BY <1>4, <1>a DEF start, ToggleRestore, ClickRestoreTab, ClickWalletTab, CopyMnemonic,
                    ConfirmBackup, Reveal, CopyAddress, handleDeploy, DeployTimer, ToastTimer
<1>5. CASE UNCHANGED vars  BY <1>5, <1>a DEF vars
<1> QED BY <1>1, <1>2, <1>3, <1>4, <1>5 DEF Next, confirmLogout, BrowserReload

-----------------------------------------------------------------------------
\* The page's invariant holds in every state.
THEOREM PageCorrect == Spec => []PageInv
<1>1. Init => PageInv
  <2> SUFFICES ASSUME Init PROVE PageInv  OBVIOUS
  <2>1. /\ wasm = "loading" /\ wallet = Null /\ page = Loaded /\ toasts = 0 /\ deploys = 0
        /\ clipboard = Null /\ made = 0 /\ log = {}
    BY DEF Init
  <2>2. /\ page.visible = {"setup"} /\ page.active = {"mnemonic", "keys"}
        /\ page.content = {"mnemonic", "keys"} /\ page \in PagesOf(made)
    BY <2>1, LoadedIsPage
  <2>3. TypeOK  BY <2>1, <2>2, TypeIs, WalletAssumption
  <2>4. OneScreen  BY <2>1, <2>2 DEF OneScreen
  <2>5. ScreenMatchesWallet
    BY <2>1, <2>2, <2>4, OneSection DEF OneScreen, ScreenMatchesWallet
  <2>6. RestoreModeShown
    <3>1. page.content \cap RestoreTabs = {"mnemonic"}  BY <2>2 DEF RestoreTabs
    <3> QED BY <2>2, <3>1 DEF RestoreModeShown, RestoreTabs
  <2>7. KeysHaveOrigin  BY <2>1 DEF KeysHaveOrigin
  <2> QED BY <2>3, <2>4, <2>5, <2>6, <2>7 DEF PageInv
<1>2. PageInv /\ [Next]_vars => PageInv'
  BY PageTypeStep, ScreenStep, OriginStep DEF PageInv
<1> QED BY <1>1, <1>2, PTL DEF Spec

(***************************************************************************)
(* Whatever order clicks and timers come in, the screen shows setup while  *)
(* there is no wallet, else the wallet in memory.                          *)
(***************************************************************************)
THEOREM ScreenCorrect == Spec => []ScreenMatchesWallet
<1>1. PageInv => ScreenMatchesWallet  BY DEF PageInv
<1> QED BY <1>1, PageCorrect, PTL

(***************************************************************************)
(* restoreWallet reads the field the user sees, although the class that    *)
(* decides it is also written by the listener of the wallet's tabs.        *)
(***************************************************************************)
THEOREM RestoreModeCorrect == Spec => []RestoreModeShown
<1>1. PageInv => RestoreModeShown  BY DEF PageInv
<1> QED BY <1>1, PageCorrect, PTL

(***************************************************************************)
(* A generated phrase gives its keys back in every later session, for any  *)
(* passphrases and any number of wallets.                                  *)
(***************************************************************************)
THEOREM RestoreCorrect == Spec => []SamePhraseSameKeys
<1>1. PageInv => SamePhraseSameKeys
  <2> SUFFICES ASSUME PageInv, wallet # Null, NEW r \in log,
                      wallet.phrase = r.phrase, typed.text = r.typed.text
               PROVE  wallet.key = r.key
    BY DEF SamePhraseSameKeys
  <2>1. r.typed \in Typed /\ r.key = Key(r.phrase, trim(r.typed)) /\ r.phrase # Null
    BY DEF PageInv, KeysHaveOrigin
  <2>2. typed \in Typed /\ wallet.key = Key(wallet.phrase, trim(typed))
    BY <2>1 DEF PageInv, KeysHaveOrigin
  <2>3. trim(typed) = trim(r.typed)  BY <2>1, <2>2, Trimmed
  <2> QED BY <2>1, <2>2, <2>3
<1> QED BY <1>1, PageCorrect, PTL

(***************************************************************************)
(* No click or timer puts another wallet in the place of one whose phrase  *)
(* may not be saved yet; it goes only with the session.                    *)
(***************************************************************************)
THEOREM WalletKept == Spec => WalletNotReplaced
<1>1. PageInv /\ [Next]_vars => [wallet # Null => wallet' = wallet \/ wasm' = "loading"]_vars
  <2> SUFFICES ASSUME PageInv, [Next]_vars, wallet # Null
               PROVE  wallet' = wallet \/ wasm' = "loading"
    OBVIOUS
  <2>1. "setup" \notin page.visible  BY DEF PageInv, ScreenMatchesWallet
  <2>2. ~createWallet /\ ~restoreWallet
    BY <2>1 DEF createWallet, restoreWallet, Clickable
  <2>3. CASE Reload  BY <2>3 DEF Reload
  <2>4. CASE start \/ ToggleRestore \/ ClickRestoreTab \/ ClickWalletTab \/ CopyMnemonic
             \/ ConfirmBackup \/ Reveal \/ CopyAddress \/ handleDeploy \/ DeployTimer \/ ToastTimer
    BY <2>4 DEF start, ToggleRestore, ClickRestoreTab, ClickWalletTab, CopyMnemonic,
                ConfirmBackup, Reveal, CopyAddress, handleDeploy, DeployTimer, ToastTimer
  <2>5. CASE UNCHANGED vars  BY <2>5 DEF vars
  <2> QED BY <2>2, <2>3, <2>4, <2>5 DEF Next, confirmLogout, BrowserReload
<1> QED BY <1>1, PageCorrect, PTL DEF Spec, WalletNotReplaced
=============================================================================
