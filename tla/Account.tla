------------------------------- MODULE Account -------------------------------
(***************************************************************************)
(* The WE Camp login (common/n02_wecamp.cpp), which the windows of one PC  *)
(* share through n02.ini: a window loads it when its mode opens, logs in   *)
(* and out, and its threads ask the site with a copy of the token.  An     *)
(* answer may come when the user has logged out, or in as another, here or *)
(* in the other window.  The voice call of a match is asked for the same   *)
(* way, again and again until a second player is there.                    *)
(*                                                                         *)
(* Reading and writing n02.ini in one function is one step, and so is      *)
(* what a thread does with its answer; only ForgetRefusedLogin, which      *)
(* clears n02.ini if it finds the refused token there, reads in one step   *)
(* and clears in another, between which the other window may write.        *)
(***************************************************************************)
EXTENDS Integers, FiniteSets

CONSTANTS
  Windows,       \* the programs that have this n02.ini
  Accounts,
  VoiceRetries,  \* N02_VOICE_RETRIES
  MaxTokens, MaxRequests, MaxVoiceGames, MaxSiteActs   \* bounds
ASSUME AccountAssumption ==
  /\ Accounts \subseteq Nat \ {0}
  /\ {VoiceRetries, MaxTokens, MaxRequests, MaxVoiceGames, MaxSiteActs} \subseteq Nat
  /\ MaxTokens # 0

VARIABLES
  owner,    \* external: whose each token is, 0 if it was not given out
  valid,    \* external: the tokens the site knows
  discord,  \* external: the accounts with a Discord
  saved,    \* n02.ini: the login, DISCORD_VOICE and DISCORD_VOICE_AUTO
  mem,      \* mem[v]: a window's g_token, g_username, g_discord_linked, and g_voice
  call,     \* call[v][s]: what the window's own thread, and another of it, ask the site
  voiceGame, \* voiceGame[v]: g_voice_game
  requests, siteActs
siteVars == <<owner, valid, discord, siteActs>>
accountVars == <<siteVars, saved, mem, call, voiceGame, requests>>

Callers == {"ui", "thread"}
NoLogin == [token |-> 0, user |-> 0, linked |-> FALSE]
NotRead == -1     \* found: the token that ForgetRefusedLogin read from n02.ini, if it has
Idle == [kind |-> "none", token |-> 0, key |-> FALSE, game |-> 0, tries |-> 0, reply |-> "none", login |-> NoLogin,
         found |-> NotRead]

\* n02.ini may hold a login from before, with the first token.
AccountInit ==
  /\ \E a \in Accounts \cup {0} :
       /\ owner = [t \in 1 .. MaxTokens |-> IF t = 1 THEN a ELSE 0]
       /\ valid = {t \in 1 .. MaxTokens : owner[t] # 0}
       /\ saved = [login |-> [NoLogin EXCEPT !.token = IF a = 0 THEN 0 ELSE 1, !.user = a], voice |-> FALSE, voiceOf |-> 0]
  /\ discord \in SUBSET Accounts /\ siteActs = 0
  /\ mem = [v \in Windows |-> [login |-> NoLogin, voice |-> FALSE]]
  /\ call = [v \in Windows |-> [s \in Callers |-> Idle]]
  /\ voiceGame = [v \in Windows |-> 0] /\ requests = 0

\* n02_wecamp_logged_in, n02_wecamp_voice_enabled
LoggedIn(v) == mem[v].login.token # 0 /\ mem[v].login.user # 0
VoiceEnabled(v) == LoggedIn(v) /\ mem[v].login.linked /\ mem[v].voice

Asks(v, s, kind, token, key) ==
  /\ call[v][s].kind = "none" /\ requests < MaxRequests /\ requests' = requests + 1
  /\ call' = [call EXCEPT ![v][s] = [Idle EXCEPT !.kind = kind, !.token = token, !.key = key]]
Done(v, s) == call' = [call EXCEPT ![v][s] = Idle]
Waits(v, s, kind) == call[v][s].kind = kind /\ call[v][s].reply # "none"
-----------------------------------------------------------------------------
\* The site, and HttpsRequest

Answered(v, s, reply, login) ==
  call' = [call EXCEPT ![v][s].reply = reply, ![v][s].login = login]
Asked(v, s) == call[v][s].kind # "none" /\ call[v][s].reply = "none"

\* The server could not be reached, or its answer was lost.
Unreachable(v, s) ==
  /\ Asked(v, s) /\ Answered(v, s, "0", NoLogin)
  /\ UNCHANGED <<siteVars, saved, mem, voiceGame, requests>>

SiteLogsIn(v) ==
  LET a == call[v]["ui"].token IN
  /\ Asked(v, "ui") /\ call[v]["ui"].kind = "login"
  /\ \E t \in 1 .. MaxTokens :
       /\ owner[t] = 0 /\ \A u \in 1 .. t - 1 : owner[u] # 0
       /\ owner' = [owner EXCEPT ![t] = a] /\ valid' = valid \cup {t}
       /\ \/ Answered(v, "ui", "200", [token |-> t, user |-> a, linked |-> a \in discord])
          \/ Answered(v, "ui", "0", NoLogin)
  /\ UNCHANGED <<discord, siteActs, saved, mem, voiceGame, requests>>

SiteLogsOut(v) ==
  /\ Asked(v, "ui") /\ call[v]["ui"].kind = "logout" /\ valid' = valid \ {call[v]["ui"].token}
  /\ Answered(v, "ui", "200", NoLogin) /\ UNCHANGED <<owner, discord, siteActs, saved, mem, voiceGame, requests>>

\* TokenRefused is about "invalid_token"; /api/mc/whoami tells of the owner's Discord.
SiteAnswers(v) ==
  LET c == call[v]["thread"] whose == IF c.token = 0 THEN 0 ELSE owner[c.token] IN
  /\ Asked(v, "thread")
  /\ IF ~c.key /\ c.token \notin valid THEN Answered(v, "thread", "invalid_token", NoLogin)
     ELSE IF c.kind # "voice" THEN Answered(v, "thread", "200", [NoLogin EXCEPT !.linked = whose \in discord])
     ELSE IF whose \notin discord THEN Answered(v, "thread", "not_linked", NoLogin)
     ELSE \E reply \in {"waiting", "moved"} : Answered(v, "thread", reply, NoLogin)
  /\ UNCHANGED <<siteVars, saved, mem, voiceGame, requests>>

\* The user on the site: a connection removed, or the password changed; a Discord linked or not.
OnTheSite ==
  /\ siteActs < MaxSiteActs /\ siteActs' = siteActs + 1
  /\ \/ \E t \in valid : valid' = valid \ {t} /\ UNCHANGED discord
     \/ \E a \in Accounts : discord' = (discord \ {a}) \cup ({a} \ discord) /\ UNCHANGED valid
  /\ UNCHANGED <<owner, saved, mem, call, voiceGame, requests>>
-----------------------------------------------------------------------------
\* What the answers do

\* ApplyDiscord: what is told is taken to be about whoever is logged in by now.
SetVoice(d, v, on) == [d EXCEPT !.mem = [@ EXCEPT ![v].voice = on], !.saved.voice = on]
ApplyDiscord(d, v, linked) ==
  LET e == [d EXCEPT !.mem[v].login.linked = linked, !.saved.login.linked = linked]
      user == d.mem[v].login.user
      f == SetVoice(e, v, linked)
  IN IF d.saved.voiceOf = user THEN e ELSE IF linked THEN [f EXCEPT !.saved.voiceOf = user] ELSE f
Disk == [saved |-> saved, mem |-> mem]
Becomes(d) == saved' = d.saved /\ mem' = d.mem

ClearSavedLogin(d) == [d EXCEPT !.saved.login = NoLogin]

\* AuthRequest, once the site has answered.
IsRefused(c) == ~c.key /\ c.token # 0 /\ c.reply = "invalid_token"

\* Up to the reading of n02.ini, which is not read if another has logged in meanwhile.
ForgetRefusedLogin(v) ==
  LET c == call[v]["thread"] mine == mem[v].login.token = c.token IN
  /\ IsRefused(c) /\ c.found = NotRead
  /\ call' = [call EXCEPT ![v]["thread"].found = IF mine THEN saved.login.token ELSE 0]
  /\ mem' = IF mine THEN [mem EXCEPT ![v].login = NoLogin] ELSE mem
  /\ UNCHANGED <<siteVars, saved, voiceGame, requests>>

\* The rest of it, with what was read, whatever n02.ini holds by now.
ClearUnread(c) ==                      \* mutant: cleared whatever was found
  IF IsRefused(c) THEN ClearSavedLogin(Disk) ELSE Disk
ClearRefused(c) == IF IsRefused(c) /\ c.found = c.token THEN ClearSavedLogin(Disk) ELSE Disk

\* The request is over, and with it ForgetRefusedLogin.
Answers(v, kind) ==
  Waits(v, "thread", kind) /\ (IsRefused(call[v]["thread"]) => call[v]["thread"].found # NotRead)
-----------------------------------------------------------------------------
\* A window

\* n02_wecamp_load
Load(v) ==
  /\ call[v]["ui"] = Idle
  /\ mem' = [mem EXCEPT ![v] = [login |-> IF saved.login.token = 0 THEN NoLogin ELSE saved.login, voice |-> saved.voice]]
  /\ UNCHANGED <<siteVars, saved, call, voiceGame, requests>>

\* n02_wecamp_login, from the window's logged-out face
AskLogin(v) ==
  /\ ~LoggedIn(v) /\ \E a \in Accounts : Asks(v, "ui", "login", a, FALSE)
  /\ UNCHANGED <<siteVars, saved, mem, voiceGame>>
Login(v) ==
  LET c == call[v]["ui"] IN
  /\ Waits(v, "ui", "login") /\ Done(v, "ui")
  /\ IF c.reply # "200" THEN UNCHANGED <<saved, mem>>
     ELSE LET in == [token |-> c.login.token, user |-> c.login.user, linked |-> mem[v].login.linked]
          IN Becomes(ApplyDiscord([mem |-> [mem EXCEPT ![v].login = in],
                                   saved |-> [saved EXCEPT !.login = in]], v, c.login.linked))
  /\ UNCHANGED <<siteVars, voiceGame, requests>>

\* n02_wecamp_logout: whatever the site says, and whoever n02.ini holds by now.
AskLogout(v) ==
  /\ LoggedIn(v) /\ Asks(v, "ui", "logout", mem[v].login.token, FALSE)
  /\ UNCHANGED <<siteVars, saved, mem, voiceGame>>
Logout(v) ==
  /\ Waits(v, "ui", "logout") /\ Done(v, "ui")
  /\ Becomes(ClearSavedLogin([Disk EXCEPT !.mem[v].login = NoLogin]))
  /\ UNCHANGED <<siteVars, voiceGame, requests>>

\* CHK_WECAMP_DISCORD, n02_wecamp_set_voice_enabled
ChooseVoice(v) ==
  /\ call[v]["ui"] = Idle /\ LoggedIn(v) /\ mem[v].login.linked
  /\ Becomes(SetVoice(Disk, v, ~mem[v].voice)) /\ UNCHANGED <<siteVars, call, voiceGame, requests>>
-----------------------------------------------------------------------------
\* The threads

\* n02_wecamp_refresh_discord, n02_wecamp_get_ticket, n02_wecamp_verify_ticket: the last goes with
\* the DLL's key if nobody is logged in.
AskWith(v, kind, allowKey) ==
  /\ LoggedIn(v) \/ allowKey
  /\ Asks(v, "thread", kind, mem[v].login.token, allowKey /\ ~LoggedIn(v))
AskInThread(v) ==
  /\ AskWith(v, "whoami", FALSE) \/ AskWith(v, "ticket", FALSE) \/ AskWith(v, "verify", TRUE)
  /\ UNCHANGED <<siteVars, saved, mem, voiceGame>>

RefreshDiscord(v) ==
  LET c == call[v]["thread"] IN
  /\ Answers(v, "whoami") /\ Done(v, "thread")
  /\ Becomes(IF c.reply = "200" THEN ApplyDiscord(Disk, v, c.login.linked) ELSE ClearRefused(c))
  /\ UNCHANGED <<siteVars, voiceGame, requests>>

GetTicket(v) ==
  /\ Answers(v, "ticket") /\ Done(v, "thread") /\ Becomes(ClearRefused(call[v]["thread"]))
  /\ UNCHANGED <<siteVars, voiceGame, requests>>

\* With allowKey the request goes again, with the key.
VerifyTicket(v) ==
  LET c == call[v]["thread"] IN
  /\ Answers(v, "verify") /\ Becomes(ClearRefused(c))
  /\ IF IsRefused(c) THEN call' = [call EXCEPT ![v]["thread"] = [c EXCEPT !.key = TRUE, !.reply = "none", !.found = NotRead]]
                     ELSE Done(v, "thread")
  /\ UNCHANGED <<siteVars, voiceGame, requests>>

\* VoiceJoinStart, when a match starts
StartVoice(v) ==
  /\ VoiceEnabled(v) /\ voiceGame[v] < MaxVoiceGames
  /\ voiceGame' = [voiceGame EXCEPT ![v] = @ + 1]
  /\ call[v]["thread"] = Idle /\ requests < MaxRequests /\ requests' = requests + 1
  /\ call' = [call EXCEPT ![v]["thread"] = [Idle EXCEPT !.kind = "voice", !.token = mem[v].login.token,
                                                          !.game = voiceGame[v] + 1]]
  /\ UNCHANGED <<siteVars, saved, mem>>
\* Another match starts while that thread waits: its own thread is not followed.
StartNext(v) ==
  /\ VoiceEnabled(v) /\ call[v]["thread"].kind = "voice" /\ voiceGame[v] < MaxVoiceGames
  /\ voiceGame' = [voiceGame EXCEPT ![v] = @ + 1] /\ UNCHANGED <<siteVars, saved, mem, call, requests>>

\* VoiceJoinThread: after the wait it asks with the login of that moment.
VoiceWaits(v) ==
  LET c == call[v]["thread"] IN
  /\ Waits(v, "thread", "voice") /\ c.reply = "waiting"
  /\ IF c.tries >= VoiceRetries \/ voiceGame[v] # c.game \/ ~LoggedIn(v) THEN Done(v, "thread")
     ELSE call' = [call EXCEPT ![v]["thread"] = [c EXCEPT !.token = mem[v].login.token, !.tries = @ + 1, !.reply = "none"]]
  /\ UNCHANGED <<siteVars, saved, mem, voiceGame, requests>>
VoiceEnds(v) ==
  LET c == call[v]["thread"] IN
  /\ Answers(v, "voice") /\ c.reply # "waiting" /\ Becomes(ClearRefused(c))
  /\ IF c.reply = "not_linked" /\ LoggedIn(v)
     THEN call' = [call EXCEPT ![v]["thread"] = [Idle EXCEPT !.kind = "whoami", !.token = mem[v].login.token]]
     ELSE Done(v, "thread")
  /\ UNCHANGED <<siteVars, voiceGame, requests>>

AccountNext ==
  \/ OnTheSite
  \/ \E v \in Windows :
       \/ Load(v) \/ AskLogin(v) \/ Login(v) \/ AskLogout(v) \/ Logout(v) \/ ChooseVoice(v)
       \/ AskInThread(v) \/ ForgetRefusedLogin(v) \/ RefreshDiscord(v) \/ GetTicket(v) \/ VerifyTicket(v)
       \/ StartVoice(v) \/ StartNext(v) \/ VoiceWaits(v) \/ VoiceEnds(v)
       \/ SiteLogsIn(v) \/ SiteLogsOut(v) \/ SiteAnswers(v) \/ \E s \in Callers : Unreachable(v, s)
AccountSpec == AccountInit /\ [][AccountNext]_accountVars
-----------------------------------------------------------------------------
\* What the user of several windows may rely on.

\* The window's thread clears n02.ini in this step, having found the refused token there, and
\* since then another login was written.
ClearsOvertaken(v) ==
  LET c == call[v]["thread"]
  IN IsRefused(c) /\ c.found = c.token /\ saved.login.token # c.token /\ call'[v]["thread"] # c

\* A login ends for a reason only: a window forgets one that the site no longer knows, that its user
\* ends, or that it loads anew; and n02.ini loses one that the site no longer knows, or because a user
\* of this PC logs out.  An answer to an older login, however late, ends no newer one, "not another
\* window's newer login" either, unless that was written between the reading and the clearing.
LoginEndsForAReason ==
  [][/\ \A v \in Windows :
          (mem[v].login.token # mem'[v].login.token /\ mem[v].login.token # 0) =>
            \/ mem[v].login.token \notin valid
            \/ Waits(v, "ui", "logout")
            \/ Load(v)
     /\ (saved.login.token # 0 /\ saved'.login.token = 0) =>
            \/ saved.login.token \notin valid
            \/ \E v \in Windows : Waits(v, "ui", "logout") \/ ClearsOvertaken(v)]_accountVars
=============================================================================
