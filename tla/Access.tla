------------------------------- MODULE Access -------------------------------
(***************************************************************************)
(* Accounts, profiles and sessions of the dashboard (profile_service.py,   *)
(* auth_service.py, endpoints/auth.py and endpoints/access_control.py).    *)
(*                                                                         *)
(* A request is decided (who asks, the guards of the service, what it      *)
(* reads) and then committed: with one worker nothing comes in between,    *)
(* with two another request does, under READ COMMITTED.                    *)
(***************************************************************************)
EXTENDS Rights, Naturals

CONSTANTS
    Users, Tokens, Workers, Profiles,
    Admin,          \* the system profile, made by a migration
    Bootstrapped,   \* the accounts scripts/create_admin.py made
    Grants,         \* the sets of rights a profile is given
    Absent,         \* None: no row, no session, no actor, no change
    MaxPasswords    \* bound on the changes of one password

VARIABLES
    users,          \* profile, enabled, password of an account, or Absent
    profiles,       \* rights of a profile, or Absent
    sessions,       \* what a token stands for, or Absent
    requests        \* what a worker has decided and not yet committed
access == <<users, profiles, sessions, requests>>

Account == [profile : Profiles, enabled : BOOLEAN, password : 0 .. MaxPasswords]

effective_permissions(u) ==
    IF users[u] = Absent THEN {}
    ELSE IF users[u].profile = Admin THEN PERMISSION_KEYS
    ELSE normalize_permissions(profiles[users[u].profile])

is_admin(u) == users[u].profile = Admin

ActiveAdmins == {u \in Users : users[u] # Absent /\ is_admin(u) /\ users[u].enabled}

\* get_user_from_token: the account a token opens, if any.
UserOf(t) ==
    IF sessions[t] = Absent \/ sessions[t].expired THEN Absent
    ELSE IF ~users[sessions[t].user].enabled THEN Absent
    ELSE sessions[t].user

(* Who may make a request of a route: a machine with the master key (no     *)
(* actor), or the account of a session whose rights pass its guards.        *)
AdminUsers == Operators("admin users", {"admin.users"})
AdminProfiles == Operators("admin profiles", {"admin.profiles"})
Actors(route) ==
    (IF OpenToMachine(route, MasterKey) THEN {Absent} ELSE {})
        \union {u \in {UserOf(t) : t \in Tokens} \ {Absent} :
                   OpenToRights(route, effective_permissions(u))}
-----------------------------------------------------------------------------
AccessInit ==
    /\ users = [u \in Users |->
                  IF u \in Bootstrapped
                  THEN [profile |-> Admin, enabled |-> TRUE, password |-> 0]
                  ELSE Absent]
    /\ profiles = [p \in Profiles |-> IF p = Admin THEN PERMISSION_KEYS ELSE Absent]
    /\ sessions = [t \in Tokens |-> Absent]
    /\ requests = [w \in Workers |-> Absent]

Decided(w, request) ==
    /\ requests[w] = Absent
    /\ requests' = [requests EXCEPT ![w] = request]
    /\ UNCHANGED <<users, profiles, sessions>>

InUse == {requests[w].token : w \in {v \in Workers : requests[v] # Absent}}

Login(w) ==
    \E u \in Users, t \in Tokens :
        /\ sessions[t] = Absent /\ t \notin InUse
        /\ users[u] # Absent /\ users[u].enabled
        /\ Decided(w, [op |-> "login", token |-> t, user |-> u, password |-> users[u].password])

Logout(w) ==
    \E t \in Tokens : UserOf(t) # Absent /\ Decided(w, [op |-> "logout", token |-> t])

ChangePassword(w) ==
    \E t \in Tokens :
        /\ UserOf(t) # Absent /\ users[UserOf(t)].password < MaxPasswords
        /\ Decided(w, [op |-> "password", token |-> Absent, user |-> UserOf(t)])

ResetPassword(w) ==
    \E u \in Users :
        /\ Actors(AdminUsers) # {} /\ users[u] # Absent /\ users[u].password < MaxPasswords
        /\ Decided(w, [op |-> "password", token |-> Absent, user |-> u])

CreateProfile(w) ==
    \E p \in Profiles, granted \in Grants :
        /\ Actors(AdminProfiles) # {} /\ profiles[p] = Absent /\ unknown_permissions(granted) = {}
        /\ Decided(w, [op |-> "create profile", token |-> Absent, profile |-> p, granted |-> granted])

UpdateProfile(w) ==
    \E p \in Profiles \ {Admin}, granted \in Grants :
        /\ Actors(AdminProfiles) # {} /\ profiles[p] # Absent
        /\ unknown_permissions(granted) = {} /\ granted # profiles[p]
        /\ Decided(w, [op |-> "update profile", token |-> Absent, profile |-> p, granted |-> granted])

\* count_users_with_profile.
Holders(p) == {u \in Users : users[u] # Absent /\ users[u].profile = p}

DeleteProfile(w) ==
    \E p \in Profiles \ {Admin} :
        /\ Actors(AdminProfiles) # {} /\ profiles[p] # Absent /\ Holders(p) = {}
        /\ Decided(w, [op |-> "delete profile", token |-> Absent, profile |-> p])

CreateUser(w) ==
    \E u \in Users, p \in Profiles, enabled \in BOOLEAN :
        /\ Actors(AdminUsers) # {} /\ users[u] = Absent /\ profiles[p] # Absent
        /\ Decided(w, [op |-> "create user", token |-> Absent, user |-> u, profile |-> p, enabled |-> enabled])

(* assert_not_self_locking, assert_last_admin_survives.                    *)
NotSelfLocking(actor, u, stillAdmin) == actor = u /\ is_admin(u) => stillAdmin

\* Mutant: a disabled administrator counts among those who remain.
AnyAdminRemains(u, stillAdmin, stillEnabled) ==
    (is_admin(u) /\ users[u].enabled /\ ~(stillAdmin /\ stillEnabled)) => Holders(Admin) \ {u} # {}
LastAdminSurvives(u, stillAdmin, stillEnabled) ==
    (is_admin(u) /\ users[u].enabled /\ ~(stillAdmin /\ stillEnabled)) => ActiveAdmins \ {u} # {}

UpdateUser(w) ==
    \E u \in Users, p \in Profiles, enabled \in BOOLEAN, actor \in Actors(AdminUsers) :
        /\ users[u] # Absent /\ profiles[p] # Absent
        /\ <<p, enabled>> # <<users[u].profile, users[u].enabled>>
        /\ NotSelfLocking(actor, u, p = Admin)
        /\ LastAdminSurvives(u, p = Admin, enabled)
        /\ Decided(w, [op |-> "update user", token |-> Absent, user |-> u,
                       profile |-> IF p = users[u].profile THEN Absent ELSE p,
                       enabled |-> IF enabled = users[u].enabled THEN Absent ELSE <<enabled>>])

DeleteUser(w) ==
    \E u \in Users, actor \in Actors(AdminUsers) :
        /\ users[u] # Absent /\ actor # u
        /\ LastAdminSurvives(u, FALSE, FALSE)
        /\ Decided(w, [op |-> "delete user", token |-> Absent, user |-> u])
-----------------------------------------------------------------------------
(* The writes of a request, as the database takes them: a row that is gone *)
(* or a constraint refuses them all.                                       *)

\* revoke_all_sessions_for_user; a deleted account takes its sessions along.
Revoked(u) ==
    [t \in Tokens |->
        IF sessions[t] # Absent /\ sessions[t].user = u THEN Absent ELSE sessions[t]]

Admitted(r) ==
    CASE r.op \in {"login", "password", "delete user"} -> users[r.user] # Absent
      [] r.op = "logout" -> TRUE
      [] r.op = "create profile" -> profiles[r.profile] = Absent
      [] r.op = "update profile" -> profiles[r.profile] # Absent
      [] r.op = "delete profile" -> profiles[r.profile] # Absent /\ Holders(r.profile) = {}
      [] r.op = "create user" -> users[r.user] = Absent /\ profiles[r.profile] # Absent
      [] r.op = "update user" -> 
           /\ users[r.user] # Absent
           /\ r.profile # Absent => profiles[r.profile] # Absent

\* Mutant: only a disabled account is put out.
OutWhenDisabled(r) == r.enabled = <<FALSE>>
PutsOut(r) == r.enabled = <<FALSE>> \/ r.profile # Absent

Written(r) ==
    CASE r.op = "login" ->
           /\ sessions' = [sessions EXCEPT ![r.token] =
                              [user |-> r.user, password |-> r.password,
                               profile |-> users[r.user].profile, expired |-> FALSE]]
           /\ UNCHANGED <<users, profiles>>
      [] r.op = "logout" ->
           /\ sessions' = [sessions EXCEPT ![r.token] = Absent]
           /\ UNCHANGED <<users, profiles>>
      [] r.op = "password" ->
           /\ users' = [users EXCEPT ![r.user].password = @ + 1]
           /\ sessions' = Revoked(r.user)
           /\ UNCHANGED profiles
      [] r.op \in {"create profile", "update profile"} ->
           /\ profiles' = [profiles EXCEPT ![r.profile] = normalize_permissions(r.granted)]
           /\ UNCHANGED <<users, sessions>>
      [] r.op = "delete profile" ->
           /\ profiles' = [profiles EXCEPT ![r.profile] = Absent]
           /\ UNCHANGED <<users, sessions>>
      [] r.op = "create user" ->
           /\ users' = [users EXCEPT ![r.user] =
                           [profile |-> r.profile, enabled |-> r.enabled, password |-> 0]]
           /\ UNCHANGED <<profiles, sessions>>
      [] r.op = "update user" ->
           /\ users' = [users EXCEPT ![r.user].profile = IF r.profile = Absent THEN @ ELSE r.profile,
                                     ![r.user].enabled = IF r.enabled = Absent THEN @ ELSE r.enabled[1]]
           /\ sessions' = IF PutsOut(r) THEN Revoked(r.user) ELSE sessions
           /\ UNCHANGED profiles
      [] r.op = "delete user" ->
           /\ users' = [users EXCEPT ![r.user] = Absent]
           /\ sessions' = Revoked(r.user)
           /\ UNCHANGED profiles

CommitRequest(w) ==
    LET r == requests[w] IN
    /\ r # Absent
    /\ requests' = [requests EXCEPT ![w] = Absent]
    /\ IF Admitted(r) THEN Written(r) ELSE UNCHANGED <<users, profiles, sessions>>

\* Twelve hours go by, whether or not the session is used.
Expire ==
    \E t \in Tokens :
        /\ sessions[t] # Absent /\ ~sessions[t].expired
        /\ sessions' = [sessions EXCEPT ![t].expired = TRUE]
        /\ UNCHANGED <<users, profiles, requests>>

\* cleanup_expired_sessions.
Cleanup ==
    /\ \E t \in Tokens : sessions[t] # Absent /\ sessions[t].expired
    /\ sessions' = [t \in Tokens |->
                       IF sessions[t] # Absent /\ sessions[t].expired THEN Absent ELSE sessions[t]]
    /\ UNCHANGED <<users, profiles, requests>>

AccessNext ==
    \/ \E w \in Workers :
          \/ Login(w) \/ Logout(w) \/ ChangePassword(w) \/ ResetPassword(w)
          \/ CreateProfile(w) \/ UpdateProfile(w) \/ DeleteProfile(w)
          \/ CreateUser(w) \/ UpdateUser(w) \/ DeleteUser(w)
          \/ CommitRequest(w)
    \/ Expire \/ Cleanup

AccessSpec == AccessInit /\ [][AccessNext]_access
-----------------------------------------------------------------------------
\* No sequence of requests leaves the dashboard without an account that is
\* enabled and holds the system profile (assert_last_admin_survives).
LastAdminStays == ActiveAdmins # {}

\* A session was opened with the password its account has now, under the
\* profile it has now, and its account exists and is enabled: whatever
\* changed any of them put it out.
SessionsAreOfNow ==
    \A t \in Tokens :
        sessions[t] # Absent =>
            LET u == sessions[t].user IN
            /\ users[u] # Absent /\ users[u].enabled
            /\ users[u].password = sessions[t].password
            /\ users[u].profile = sessions[t].profile

\* Whoever holds every right of the catalogue passes wherever an
\* administrator does: no route asks for a right that cannot be granted.
NothingOnlyForAdmins ==
    \A u \in Users :
        users[u] # Absent /\ users[u].profile # Admin
            /\ profiles[users[u].profile] = PERMISSION_KEYS =>
        \A route \in Routes : OpenToRights(route, effective_permissions(u))
=============================================================================
