----------------------------- MODULE MCAccounts -----------------------------
(***************************************************************************)
(* Instances of Accounts: an administrator is in the table and a reader    *)
(* can be registered; one login uses a name that looks like an id.         *)
(***************************************************************************)
EXTENDS Accounts, TLC

MCFirstRows ==
  <<[name |-> "adm", email |-> "a@", password |-> Hash("pa"), level |-> 2, after |-> 0]>>

MCDigits == [k \in {"1"} |-> 1]

Cmd(cmd) == [cmd |-> cmd, id |-> 0, name |-> "", email |-> "", pwd |-> "",
             old |-> "", level |-> 0]

MCCommands ==
  {[Cmd("authmanager_Login") EXCEPT !.name = k, !.pwd = p] :
      k \in {"adm", "r@", "1"}, p \in {"pa", "pr"}}
  \union {Cmd("authmanager_Logout")}
  \union {[Cmd("authmanager_Register") EXCEPT !.name = "rea", !.email = e, !.pwd = "pr"] :
            e \in {"r@", "bad"}}
  \union {[Cmd("usermanager_insertUser") EXCEPT !.name = "rea", !.email = "r@"]}
  \union {[Cmd("usermanager_getUserByName") EXCEPT !.name = "rea"]}
  \union {[Cmd("user_setAuthLevel") EXCEPT !.id = i, !.level = l] :
            i \in 1 .. 2, l \in {0, 3}}
  \union {[Cmd(cmd) EXCEPT !.id = 2] :
            cmd \in {"user_getBasicInfo", "authmanager_getAuthLevel", "user_deleteUser"}}
  \union {[Cmd("user_setBasicInfo") EXCEPT !.id = 2, !.email = e] : e \in {"a@", "bad"}}
  \union {[Cmd("user_setPassword") EXCEPT !.id = 2, !.pwd = "pa"]}
  \union {[Cmd("authmanager_changePassword") EXCEPT !.id = 2, !.old = "pr", !.pwd = "pa"]}

(* Just what it takes to change a level.                                   *)
MCLevelCommands ==
  {c \in MCCommands : c.cmd \in {"authmanager_Login", "authmanager_Register",
                                 "user_setAuthLevel"}}

(* The workers are interchangeable.                                        *)
Symmetric == Permutations(Workers)
=============================================================================
