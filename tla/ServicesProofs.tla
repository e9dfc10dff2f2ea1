--------------------------- MODULE ServicesProofs ---------------------------
(***************************************************************************)
(* What TLAPS proves about the services that share the backend and nothing *)
(* else: the accounts and their rights (Access), the messages about the    *)
(* incidents (Notifications), the daily totals and the retention           *)
(* (Consumption).                                                          *)
(***************************************************************************)
EXTENDS Access, Notifications, Consumption, FiniteSetTheorems, WellFoundedInduction, TLAPS

(* What TLAPS proves about Access. *)

-----------------------------------------------------------------------------
(* An account as it is stored, however often its password was changed.     *)
Stored == [profile : Profiles, enabled : BOOLEAN, password : Nat]

(* A value for nothing that is nothing else.                               *)
AbsentIsApart == Absent \notin Stored \cup Profiles \cup {<<TRUE>>, <<FALSE>>}
AccountsSane ==
    /\ AbsentIsApart
    /\ Admin \in Profiles
    /\ Bootstrapped \cap Users # {}

\* The accounts are accounts, and every session belongs to a known one.
AccountsShape ==
    /\ users \in [Users -> Stored \cup {Absent}]
    /\ sessions \in [Tokens -> [user : Users, password : Nat, profile : Profiles,
                                expired : BOOLEAN] \cup {Absent}]
    /\ requests = [w \in Workers |-> requests[w]]

\* The accounts a decision rests on: the one that logs in, and, for a guard
\* of the last administrator, all of them.
ReadBy(r) ==
    CASE r.op = "login" -> {r.user}
      [] r.op \in {"update user", "delete user"} -> Users
      [] OTHER -> {}

\* The workers take requests side by side, and none commits a change of an
\* account that another one has read and decided on but not committed yet.
DecisionsStand ==
    \A w \in Workers :
        requests[w] # Absent /\ requests'[w] # Absent =>
            \A u \in ReadBy(requests[w]) : users'[u] = users[u]

\* What a request was decided on still holds.
Holds(r) ==
    /\ r.op \in {"login", "logout", "password", "create profile", "update profile",
                 "delete profile", "create user", "update user", "delete user"}
    /\ r.op = "login" =>
          /\ r.token \in Tokens /\ r.user \in Users
          /\ users[r.user] # Absent => users[r.user].enabled /\ r.password = users[r.user].password
    /\ r.op = "password" => r.user \in Users
    /\ r.op = "create user" =>
          r.user \in Users /\ r.profile \in Profiles /\ r.enabled \in BOOLEAN
    /\ r.op = "update user" =>
          /\ r.user \in Users
          /\ r.profile \in Profiles \cup {Absent}
          /\ r.enabled \in {Absent, <<TRUE>>, <<FALSE>>}
          /\ users[r.user] # Absent =>
                LastAdminSurvives(r.user,
                    IF r.profile = Absent THEN is_admin(r.user) ELSE r.profile = Admin,
                    IF r.enabled = Absent THEN users[r.user].enabled ELSE r.enabled = <<TRUE>>)
    /\ r.op = "delete user" =>
          /\ r.user \in Users
          /\ users[r.user] # Absent => LastAdminSurvives(r.user, FALSE, FALSE)

\* A request that has been decided and not committed still holds.
Pending == \A w \in Workers : requests[w] # Absent => Holds(requests[w])

AccountsInv == AccountsShape /\ Pending /\ LastAdminStays /\ SessionsAreOfNow

-----------------------------------------------------------------------------
\* At first: the accounts of the bootstrap, nobody logged in.
LEMMA AccountsAtFirst == ASSUME AccountsSane PROVE AccessInit => AccountsInv
  <1> SUFFICES ASSUME AccessInit PROVE AccountsInv
    OBVIOUS
  <1> USE DEF AccessInit, AccountsSane
  <1>1. [profile |-> Admin, enabled |-> TRUE, password |-> 0] \in Stored
    BY DEF Stored
  <1>2. AccountsShape
    BY <1>1 DEF AccountsShape
  <1>3. Pending /\ SessionsAreOfNow
    BY DEF Pending, SessionsAreOfNow
  <1>4. LastAdminStays
    <2>1. PICK u \in Bootstrapped \cap Users : TRUE
      OBVIOUS
    <2>2. users[u] = [profile |-> Admin, enabled |-> TRUE, password |-> 0] /\ users[u] # Absent
      BY <1>1, <2>1 DEF AbsentIsApart
    <2>3. u \in ActiveAdmins
      BY <2>1, <2>2 DEF ActiveAdmins, is_admin
    <2>4. QED
      BY <2>3 DEF LastAdminStays
  <1>5. QED
    BY <1>2, <1>3, <1>4 DEF AccountsInv

\* A decision holds as long as the accounts it rests on stay.
LEMMA HoldsKept ==
  ASSUME NEW r, Holds(r), \A u \in ReadBy(r) : users'[u] = users[u]
  PROVE  Holds(r)'
  <1>1. CASE r.op = "login"
    BY <1>1 DEF Holds, ReadBy
  <1>2. CASE r.op \in {"update user", "delete user"}
    <2>1. \A u \in Users : users'[u] = users[u]
      BY <1>2 DEF ReadBy
    <2>2. ActiveAdmins' = ActiveAdmins
      BY <2>1 DEF ActiveAdmins, is_admin
    <2>3. QED
      BY <1>2, <2>1, <2>2 DEF Holds, LastAdminSurvives, is_admin
  <1>3. QED
    BY <1>1, <1>2 DEF Holds

\* The other requests that are pending still hold.
LEMMA OthersHold ==
  ASSUME AccountsInv, DecisionsStand, NEW v \in Workers, requests[v] # Absent,
         requests'[v] = requests[v]
  PROVE  Holds(requests[v])'
  <1>1. Holds(requests[v])
    BY DEF AccountsInv, Pending
  <1>2. \A u \in ReadBy(requests[v]) : users'[u] = users[u]
    BY DEF DecisionsStand
  <1>3. QED
    BY <1>1, <1>2, HoldsKept

\* Taking up a request changes nothing but the request of its worker.
LEMMA Taken ==
  ASSUME AccountsInv, DecisionsStand, NEW w \in Workers, NEW r, Decided(w, r), Holds(r)
  PROVE  AccountsInv'
  <1>1. UNCHANGED <<users, profiles, sessions>> /\ requests' = [requests EXCEPT ![w] = r]
    BY DEF Decided
  <1>2. AccountsShape'
    BY <1>1 DEF AccountsInv, AccountsShape
  <1>3. requests'[w] = r /\ \A v \in Workers \ {w} : requests'[v] = requests[v]
    BY <1>1 DEF AccountsInv, AccountsShape
  <1>4. Holds(r)'
    BY <1>1, HoldsKept
  <1>5. Pending'
    BY <1>3, <1>4, OthersHold DEF Pending
  <1>6. LastAdminStays' /\ SessionsAreOfNow'
    BY <1>1 DEF AccountsInv, LastAdminStays, ActiveAdmins, is_admin, SessionsAreOfNow
  <1>7. QED
    BY <1>2, <1>5, <1>6 DEF AccountsInv

\* The account a token opens is a known one, and enabled.
LEMMA OpenAccount ==
  ASSUME AccountsInv, NEW t \in Tokens, UserOf(t) # Absent
  PROVE  UserOf(t) \in Users /\ users[UserOf(t)] # Absent /\ users[UserOf(t)].enabled
  BY DEF AccountsInv, AccountsShape, UserOf, SessionsAreOfNow

\* Requests about sessions and passwords: what they were decided on holds.
LEMMA SessionRequests ==
  ASSUME AccountsInv, DecisionsStand, NEW w \in Workers,
         Login(w) \/ Logout(w) \/ ChangePassword(w) \/ ResetPassword(w)
  PROVE  AccountsInv'
  <1>1. ASSUME NEW u \in Users, NEW t \in Tokens, users[u] # Absent, users[u].enabled,
               Decided(w, [op |-> "login", token |-> t, user |-> u, password |-> users[u].password])
        PROVE  AccountsInv'
    <2> DEFINE r == [op |-> "login", token |-> t, user |-> u, password |-> users[u].password]
    <2>1. Holds(r)
      BY <1>1 DEF Holds
    <2>2. QED
      BY <1>1, <2>1, Taken
  <1>2. ASSUME NEW t \in Tokens, Decided(w, [op |-> "logout", token |-> t])
        PROVE  AccountsInv'
    <2>1. Holds([op |-> "logout", token |-> t])
      BY DEF Holds
    <2>2. QED
      BY <1>2, <2>1, Taken
  <1>3. ASSUME NEW u \in Users,
               Decided(w, [op |-> "password", token |-> Absent, user |-> u])
        PROVE  AccountsInv'
    <2>1. Holds([op |-> "password", token |-> Absent, user |-> u])
      BY <1>3 DEF Holds
    <2>2. QED
      BY <1>3, <2>1, Taken
  <1>4. CASE Login(w)
    BY <1>1, <1>4 DEF Login
  <1>5. CASE Logout(w)
    BY <1>2, <1>5 DEF Logout
  <1>6. CASE ChangePassword(w)
    BY <1>3, <1>6, OpenAccount DEF ChangePassword
  <1>7. CASE ResetPassword(w)
    BY <1>3, <1>7 DEF ResetPassword
  <1>8. QED
    BY <1>4, <1>5, <1>6, <1>7

\* Requests about profiles.
LEMMA ProfileRequests ==
  ASSUME AccountsInv, DecisionsStand, NEW w \in Workers,
         CreateProfile(w) \/ UpdateProfile(w) \/ DeleteProfile(w)
  PROVE  AccountsInv'
  <1>1. ASSUME NEW op \in {"create profile", "update profile"}, NEW p, NEW granted,
               Decided(w, [op |-> op, token |-> Absent, profile |-> p, granted |-> granted])
        PROVE  AccountsInv'
    <2>1. Holds([op |-> op, token |-> Absent, profile |-> p, granted |-> granted])
      BY DEF Holds
    <2>2. QED
      BY <1>1, <2>1, Taken
  <1>2. ASSUME NEW p, Decided(w, [op |-> "delete profile", token |-> Absent, profile |-> p])
        PROVE  AccountsInv'
    <2>1. Holds([op |-> "delete profile", token |-> Absent, profile |-> p])
      BY DEF Holds
    <2>2. QED
      BY <1>2, <2>1, Taken
  <1>3. QED
    BY <1>1, <1>2 DEF CreateProfile, UpdateProfile, DeleteProfile

\* Requests about accounts: what they store stands for what they were asked.
LEMMA UserRequests ==
  ASSUME AccountsSane, AccountsInv, DecisionsStand, NEW w \in Workers,
         CreateUser(w) \/ UpdateUser(w) \/ DeleteUser(w)
  PROVE  AccountsInv'
  <1>1. ASSUME NEW u \in Users, NEW p \in Profiles, NEW on \in BOOLEAN,
               Decided(w, [op |-> "create user", token |-> Absent, user |-> u,
                           profile |-> p, enabled |-> on])
        PROVE  AccountsInv'
    <2>1. Holds([op |-> "create user", token |-> Absent, user |-> u,
                 profile |-> p, enabled |-> on])
      BY DEF Holds
    <2>2. QED
      BY <1>1, <2>1, Taken
  <1>2. ASSUME NEW u \in Users, NEW p \in Profiles, NEW on \in BOOLEAN,
               users[u] # Absent, LastAdminSurvives(u, p = Admin, on),
               NEW r,
               r = [op |-> "update user", token |-> Absent, user |-> u,
                    profile |-> IF p = users[u].profile THEN Absent ELSE p,
                    enabled |-> IF on = users[u].enabled THEN Absent ELSE <<on>>],
               Decided(w, r)
        PROVE  AccountsInv'
    <2>1. /\ r.op = "update user" /\ r.user = u
          /\ r.profile = IF p = users[u].profile THEN Absent ELSE p
          /\ r.enabled = IF on = users[u].enabled THEN Absent ELSE <<on>>
      BY <1>2
    <2>2. Absent \notin Profiles /\ Absent # <<TRUE>> /\ Absent # <<FALSE>>
      BY DEF AccountsSane, AbsentIsApart
    <2>3. r.profile \in Profiles \cup {Absent} /\ r.enabled \in {Absent, <<TRUE>>, <<FALSE>>}
      BY <2>1
    <2>4. (IF r.profile = Absent THEN is_admin(u) ELSE r.profile = Admin) = (p = Admin)
      BY <2>1, <2>2 DEF is_admin
    <2>5. users[u].enabled \in BOOLEAN
      BY <1>2 DEF AccountsInv, AccountsShape, Stored
    <2>6. (IF r.enabled = Absent THEN users[u].enabled ELSE r.enabled = <<TRUE>>) = on
      <3>1. CASE on = users[u].enabled
        BY <2>1, <3>1
      <3>2. CASE on # users[u].enabled
        <4>1. r.enabled = <<on>> /\ r.enabled # Absent
          BY <2>1, <2>2, <3>2
        <4>2. (<<on>> = <<TRUE>>) = on
          <5>1. <<on>>[1] = on /\ <<TRUE>>[1] = TRUE
            OBVIOUS
          <5>2. QED
            BY <5>1
        <4>3. QED
          BY <4>1, <4>2
      <3>3. QED
        BY <3>1, <3>2
    <2>7. Holds(r)
      BY <1>2, <2>1, <2>3, <2>4, <2>6 DEF Holds
    <2>8. QED
      BY <1>2, <2>7, Taken
  <1>3. ASSUME NEW u \in Users, users[u] # Absent, LastAdminSurvives(u, FALSE, FALSE),
               Decided(w, [op |-> "delete user", token |-> Absent, user |-> u])
        PROVE  AccountsInv'
    <2>1. Holds([op |-> "delete user", token |-> Absent, user |-> u])
      BY <1>3 DEF Holds
    <2>2. QED
      BY <1>3, <2>1, Taken
  <1>4. CASE CreateUser(w)
    BY <1>1, <1>4 DEF CreateUser
  <1>5. CASE UpdateUser(w)
    <2>1. PICK u \in Users, p \in Profiles, on \in BOOLEAN :
            /\ users[u] # Absent /\ LastAdminSurvives(u, p = Admin, on)
            /\ Decided(w, [op |-> "update user", token |-> Absent, user |-> u,
                    profile |-> IF p = users[u].profile THEN Absent ELSE p,
                    enabled |-> IF on = users[u].enabled THEN Absent ELSE <<on>>])
      BY <1>5 DEF UpdateUser
    <2>2. QED
      BY <1>2, <2>1
  <1>6. CASE DeleteUser(w)
    BY <1>3, <1>6 DEF DeleteUser
  <1>7. QED
    BY <1>4, <1>5, <1>6
-----------------------------------------------------------------------------
\* What the database makes of a login: a session.
LEMMA LoginWritten ==
  ASSUME NEW r, r.op = "login", Written(r)
  PROVE  /\ sessions' = [sessions EXCEPT ![r.token] =
                            [user |-> r.user, password |-> r.password,
                             profile |-> users[r.user].profile, expired |-> FALSE]]
         /\ UNCHANGED users
  BY DEF Written

\* Of a logout.
LEMMA LogoutWritten ==
  ASSUME NEW r, r.op = "logout", Written(r)
  PROVE  /\ sessions' = [sessions EXCEPT ![r.token] = Absent]
         /\ UNCHANGED users
  BY DEF Written

\* Of a change of password, one's own or another's.
LEMMA PasswordWritten ==
  ASSUME NEW r, r.op = "password", Written(r)
  PROVE  /\ users' = [users EXCEPT ![r.user].password = @ + 1]
         /\ sessions' = Revoked(r.user)
  BY DEF Written

\* Of a new account.
LEMMA CreationWritten ==
  ASSUME NEW r, r.op = "create user", Written(r)
  PROVE  /\ users' = [users EXCEPT ![r.user] =
                         [profile |-> r.profile, enabled |-> r.enabled, password |-> 0]]
         /\ UNCHANGED sessions
  BY DEF Written

\* Of the update of an account: two fields, and maybe its sessions.
LEMMA UpdateWritten ==
  ASSUME NEW r, r.op = "update user", Written(r)
  PROVE  /\ users' = [users EXCEPT
               ![r.user].profile = IF r.profile = Absent THEN @ ELSE r.profile,
               ![r.user].enabled = IF r.enabled = Absent THEN @ ELSE r.enabled[1]]
         /\ sessions' = IF PutsOut(r) THEN Revoked(r.user) ELSE sessions
  BY DEF Written

\* Of a deletion.
LEMMA DeletionWritten ==
  ASSUME NEW r, r.op = "delete user", Written(r)
  PROVE  /\ users' = [users EXCEPT ![r.user] = Absent]
         /\ sessions' = Revoked(r.user)
  BY DEF Written
\* Administrators remain when one account changes, unless it was the last one.
LEMMA AdminRemains ==
  ASSUME AccountsInv, NEW u \in Users, \A v \in Users \ {u} : users'[v] = users[v],
         u \in ActiveAdmins => u \in ActiveAdmins' \/ ActiveAdmins \ {u} # {}
  PROVE  LastAdminStays'
  <1>1. \A v \in Users \ {u} : v \in ActiveAdmins => v \in ActiveAdmins'
    BY DEF ActiveAdmins, is_admin
  <1>2. PICK a \in ActiveAdmins : TRUE
    BY DEF AccountsInv, LastAdminStays
  <1>3. ActiveAdmins \subseteq Users
    BY DEF ActiveAdmins
  <1>4. CASE u \in ActiveAdmins
    BY <1>1, <1>3, <1>4 DEF LastAdminStays
  <1>5. CASE u \notin ActiveAdmins
    BY <1>1, <1>2, <1>3, <1>5 DEF LastAdminStays
  <1>6. QED
    BY <1>4, <1>5

\* Sessions stay true of the accounts that stay, and the others are put out.
LEMMA PutOut ==
  ASSUME AccountsInv, NEW u \in Users, \A v \in Users \ {u} : users'[v] = users[v],
         sessions' = Revoked(u)
  PROVE  /\ SessionsAreOfNow'
         /\ sessions' \in [Tokens -> [user : Users, password : Nat, profile : Profiles,
                                      expired : BOOLEAN] \cup {Absent}]
  <1>1. \A t \in Tokens : sessions'[t] # Absent =>
              sessions'[t] = sessions[t] /\ sessions[t] # Absent /\ sessions[t].user # u
    BY DEF Revoked
  <1>2. \A t \in Tokens : sessions[t] # Absent => sessions[t].user \in Users
    BY DEF AccountsInv, AccountsShape
  <1>3. SessionsAreOfNow'
    BY <1>1, <1>2 DEF AccountsInv, SessionsAreOfNow
  <1>4. QED
    BY <1>3 DEF AccountsInv, AccountsShape, Revoked

\* The account after an update.
LEMMA UpdatedAccount ==
  ASSUME AccountsInv, NEW u \in Users, users[u] # Absent,
         NEW p, NEW e,
         users' = [users EXCEPT ![u].profile = p, ![u].enabled = e],
         p \in Profiles, e \in BOOLEAN
  PROVE  /\ users'[u] \in Stored
         /\ users'[u].profile = p /\ users'[u].enabled = e
         /\ users'[u].password = users[u].password
         /\ \A v \in Users \ {u} : users'[v] = users[v]
         /\ users' \in [Users -> Stored \cup {Absent}]
  <1> DEFINE old == users[u]
  <1>1. old \in Stored
    BY DEF AccountsInv, AccountsShape
  <1>2. [old EXCEPT !.profile = p] \in Stored
    BY <1>1 DEF Stored
  <1>3. [[old EXCEPT !.profile = p] EXCEPT !.enabled = e] \in Stored
    BY <1>2 DEF Stored
  <1>4. /\ [[old EXCEPT !.profile = p] EXCEPT !.enabled = e].profile = p
        /\ [[old EXCEPT !.profile = p] EXCEPT !.enabled = e].enabled = e
        /\ [[old EXCEPT !.profile = p] EXCEPT !.enabled = e].password = old.password
    BY <1>1 DEF Stored
  <1>5. users' = [users EXCEPT ![u] = [[old EXCEPT !.profile = p] EXCEPT !.enabled = e]]
    BY DEF AccountsInv, AccountsShape
  <1>6. QED
    BY <1>3, <1>4, <1>5 DEF AccountsInv, AccountsShape

\* A request that is done leaves the others pending.
LEMMA OthersPending ==
  ASSUME AccountsInv, DecisionsStand, NEW w \in Workers,
         requests' = [requests EXCEPT ![w] = Absent]
  PROVE  Pending' /\ requests' = [v \in Workers |-> requests'[v]]
  <1>1. requests'[w] = Absent /\ \A v \in Workers \ {w} : requests'[v] = requests[v]
    BY DEF AccountsInv, AccountsShape
  <1>2. Pending'
    BY <1>1, OthersHold DEF Pending
  <1>3. QED
    BY <1>2 DEF AccountsInv, AccountsShape

\* A login opens a session of the account as it is.
LEMMA LoginCommitted ==
  ASSUME AccountsSane, AccountsInv, NEW r, r.op = "login", Holds(r), Admitted(r), Written(r)
  PROVE  /\ SessionsAreOfNow' /\ LastAdminStays'
         /\ users' \in [Users -> Stored \cup {Absent}]
         /\ sessions' \in [Tokens -> [user : Users, password : Nat, profile : Profiles,
                                      expired : BOOLEAN] \cup {Absent}]
  <1> DEFINE t == r.token
             u == r.user
             new == [user |-> u, password |-> r.password,
                     profile |-> users[u].profile, expired |-> FALSE]
  <1>1. t \in Tokens /\ u \in Users /\ users[u] # Absent /\ users[u].enabled
        /\ r.password = users[u].password
    BY DEF Holds, Admitted
  <1>2. users[u] \in Stored
    BY <1>1 DEF AccountsInv, AccountsShape
  <1>3. new \in [user : Users, password : Nat, profile : Profiles, expired : BOOLEAN]
    BY <1>1, <1>2 DEF Stored
  <1>4. sessions' = [sessions EXCEPT ![t] = new] /\ UNCHANGED users
    BY LoginWritten
  <1>5. new.user = u /\ new.password = users[u].password /\ new.profile = users[u].profile
    BY <1>1
  <1> HIDE DEF new
  <1>6. SessionsAreOfNow'
    BY <1>1, <1>4, <1>5 DEF AccountsInv, AccountsShape, SessionsAreOfNow
  <1>7. LastAdminStays'
    BY <1>4 DEF AccountsInv, LastAdminStays, ActiveAdmins, is_admin
  <1>8. QED
    BY <1>3, <1>4, <1>6, <1>7 DEF AccountsInv, AccountsShape

\* A logout closes its session.
LEMMA LogoutCommitted ==
  ASSUME AccountsInv, NEW r, r.op = "logout", Written(r)
  PROVE  /\ SessionsAreOfNow' /\ LastAdminStays'
         /\ users' \in [Users -> Stored \cup {Absent}]
         /\ sessions' \in [Tokens -> [user : Users, password : Nat, profile : Profiles,
                                      expired : BOOLEAN] \cup {Absent}]
  <1>1. sessions' = [sessions EXCEPT ![r.token] = Absent] /\ UNCHANGED users
    BY LogoutWritten
  <1>2. \A t \in Tokens : sessions'[t] \in {sessions[t], Absent}
    BY <1>1 DEF AccountsInv, AccountsShape
  <1>3. SessionsAreOfNow'
    BY <1>1, <1>2 DEF AccountsInv, SessionsAreOfNow
  <1>4. QED
    BY <1>1, <1>3 DEF AccountsInv, AccountsShape, LastAdminStays, ActiveAdmins, is_admin

\* A new password puts out the sessions opened with the old one, and demotes nobody.
LEMMA PasswordCommitted ==
  ASSUME AccountsSane, AccountsInv, NEW r, r.op = "password", Holds(r), Admitted(r), Written(r)
  PROVE  /\ SessionsAreOfNow' /\ LastAdminStays'
         /\ users' \in [Users -> Stored \cup {Absent}]
         /\ sessions' \in [Tokens -> [user : Users, password : Nat, profile : Profiles,
                                      expired : BOOLEAN] \cup {Absent}]
  <1> DEFINE u == r.user
  <1>1. u \in Users /\ users[u] # Absent
    BY DEF Holds, Admitted
  <1>2. users[u] \in Stored
    BY <1>1 DEF AccountsInv, AccountsShape
  <1>3. users' = [users EXCEPT ![u].password = @ + 1] /\ sessions' = Revoked(u)
    BY PasswordWritten
  <1>4. /\ [users[u] EXCEPT !.password = @ + 1] \in Stored
        /\ [users[u] EXCEPT !.password = @ + 1].profile = users[u].profile
        /\ [users[u] EXCEPT !.password = @ + 1].enabled = users[u].enabled
    BY <1>1, <1>2 DEF Stored
  <1>5. /\ users'[u] = [users[u] EXCEPT !.password = @ + 1]
        /\ \A v \in Users \ {u} : users'[v] = users[v]
        /\ users' \in [Users -> Stored \cup {Absent}]
    BY <1>1, <1>3, <1>4 DEF AccountsInv, AccountsShape
  <1>6. users'[u] # Absent /\ users'[u].profile = users[u].profile
        /\ users'[u].enabled = users[u].enabled
    BY <1>4, <1>5 DEF AccountsSane, AbsentIsApart
  <1>7. u \in ActiveAdmins => u \in ActiveAdmins'
    BY <1>1, <1>6 DEF ActiveAdmins, is_admin
  <1>8. LastAdminStays'
    BY <1>1, <1>5, <1>7, AdminRemains
  <1>9. QED
    BY <1>1, <1>3, <1>5, <1>8, PutOut

\* What is written of a new account is an account.
LEMMA FreshAccount ==
  ASSUME AccountsSane, NEW p \in Profiles, NEW e \in BOOLEAN
  PROVE  [profile |-> p, enabled |-> e, password |-> 0] \in Stored
  BY DEF Stored

\* An account is created where none was, hence with no session of its own.
LEMMA CreationCommitted ==
  ASSUME AccountsSane, AccountsInv, NEW r, r.op = "create user", Holds(r), Admitted(r), Written(r)
  PROVE  /\ SessionsAreOfNow' /\ LastAdminStays'
         /\ users' \in [Users -> Stored \cup {Absent}]
         /\ sessions' \in [Tokens -> [user : Users, password : Nat, profile : Profiles,
                                      expired : BOOLEAN] \cup {Absent}]
  <1> DEFINE u == r.user
             new == [profile |-> r.profile, enabled |-> r.enabled, password |-> 0]
  <1>1. u \in Users /\ users[u] = Absent /\ r.profile \in Profiles /\ r.enabled \in BOOLEAN
    BY DEF Holds, Admitted
  <1>2. new \in Stored
    BY <1>1, FreshAccount
  <1>3. users' = [users EXCEPT ![u] = new] /\ UNCHANGED sessions
    BY CreationWritten
  <1> HIDE DEF new
  <1>4. /\ \A v \in Users \ {u} : users'[v] = users[v]
        /\ users' \in [Users -> Stored \cup {Absent}]
    BY <1>1, <1>2, <1>3 DEF AccountsInv, AccountsShape
  <1>5. u \notin ActiveAdmins
    BY <1>1 DEF ActiveAdmins
  <1>6. \A t \in Tokens : sessions[t] # Absent =>
          sessions[t].user \in Users /\ sessions[t].user # u
    BY <1>1 DEF AccountsInv, AccountsShape, SessionsAreOfNow
  <1>7. SessionsAreOfNow'
    BY <1>3, <1>4, <1>6 DEF AccountsInv, SessionsAreOfNow
  <1>8. LastAdminStays'
    BY <1>1, <1>4, <1>5, AdminRemains
  <1>9. QED
    BY <1>3, <1>4, <1>7, <1>8 DEF AccountsInv, AccountsShape

\* An account goes with its sessions, and not as the last administrator.
LEMMA DeletionCommitted ==
  ASSUME AccountsInv, NEW r, r.op = "delete user", Holds(r), Admitted(r), Written(r)
  PROVE  /\ SessionsAreOfNow' /\ LastAdminStays'
         /\ users' \in [Users -> Stored \cup {Absent}]
         /\ sessions' \in [Tokens -> [user : Users, password : Nat, profile : Profiles,
                                      expired : BOOLEAN] \cup {Absent}]
  <1> DEFINE u == r.user
  <1>1. u \in Users /\ users[u] # Absent /\ LastAdminSurvives(u, FALSE, FALSE)
    BY DEF Holds, Admitted
  <1>2. users' = [users EXCEPT ![u] = Absent] /\ sessions' = Revoked(u)
    BY DeletionWritten
  <1>3. /\ \A v \in Users \ {u} : users'[v] = users[v]
        /\ users' \in [Users -> Stored \cup {Absent}]
    BY <1>1, <1>2 DEF AccountsInv, AccountsShape
  <1>4. u \in ActiveAdmins => ActiveAdmins \ {u} # {}
    BY <1>1 DEF LastAdminSurvives, ActiveAdmins
  <1>5. LastAdminStays'
    BY <1>1, <1>3, <1>4, AdminRemains
  <1>6. QED
    BY <1>1, <1>2, <1>3, <1>5, PutOut

\* The one that needs the care: the guard of the last administrator is about
\* the account as it will be, and a session outlives only an update that
\* changes neither the profile nor, to disable it, the account.
LEMMA UpdateCommitted ==
  ASSUME AccountsSane, AccountsInv, NEW r, r.op = "update user", Holds(r), Admitted(r), Written(r)
  PROVE  /\ SessionsAreOfNow' /\ LastAdminStays'
         /\ users' \in [Users -> Stored \cup {Absent}]
         /\ sessions' \in [Tokens -> [user : Users, password : Nat, profile : Profiles,
                                      expired : BOOLEAN] \cup {Absent}]
  <1> DEFINE u == r.user
             p == IF r.profile = Absent THEN users[u].profile ELSE r.profile
             e == IF r.enabled = Absent THEN users[u].enabled ELSE r.enabled[1]
  <1>1. /\ u \in Users /\ users[u] # Absent
        /\ r.profile \in Profiles \cup {Absent}
        /\ r.enabled \in {Absent, <<TRUE>>, <<FALSE>>}
        /\ LastAdminSurvives(u, IF r.profile = Absent THEN is_admin(u) ELSE r.profile = Admin,
                             IF r.enabled = Absent THEN users[u].enabled ELSE r.enabled = <<TRUE>>)
    BY DEF Holds, Admitted
  <1>2. users[u] \in Stored /\ users[u].profile \in Profiles /\ users[u].enabled \in BOOLEAN
    BY <1>1 DEF AccountsInv, AccountsShape, Stored
  <1>3. <<TRUE>>[1] = TRUE /\ <<FALSE>>[1] = FALSE /\ <<TRUE>> # <<FALSE>>
    <2>1. <<TRUE>>[1] = TRUE /\ <<FALSE>>[1] = FALSE
      OBVIOUS
    <2>2. QED
      BY <2>1
  <1>4. p \in Profiles /\ e \in BOOLEAN
    BY <1>1, <1>2, <1>3
  <1>5. users' = [users EXCEPT ![u].profile = p, ![u].enabled = e]
    BY <1>1, UpdateWritten DEF AccountsInv, AccountsShape
  <1> HIDE DEF p, e
  <1>6. /\ users'[u] \in Stored
        /\ users'[u].profile = p /\ users'[u].enabled = e
        /\ users'[u].password = users[u].password
        /\ \A v \in Users \ {u} : users'[v] = users[v]
        /\ users' \in [Users -> Stored \cup {Absent}]
    BY <1>1, <1>4, <1>5, UpdatedAccount
  <1>7. users'[u] # Absent /\ users'[u].profile = p /\ users'[u].enabled = e
        /\ users'[u].password = users[u].password
    BY <1>6 DEF AccountsSane, AbsentIsApart
  <1>8. u \in ActiveAdmins => u \in ActiveAdmins' \/ ActiveAdmins \ {u} # {}
    <2>1. CASE p = Admin /\ e
      BY <1>1, <1>7, <2>1 DEF ActiveAdmins, is_admin
    <2>2. CASE p # Admin
      BY <1>1, <2>2 DEF ActiveAdmins, is_admin, LastAdminSurvives, p
    <2>3. CASE ~e
      BY <1>1, <1>3, <2>3 DEF ActiveAdmins, is_admin, LastAdminSurvives, e
    <2>4. QED
      BY <1>4, <2>1, <2>2, <2>3
  <1>9. LastAdminStays'
    BY <1>1, <1>6, <1>8, AdminRemains
  <1>10. CASE PutsOut(r)
    BY <1>1, <1>6, <1>9, <1>10, PutOut, UpdateWritten
  <1>11. CASE ~PutsOut(r)
    <2>1. UNCHANGED sessions
      BY <1>11, UpdateWritten
    <2>2. p = users[u].profile /\ (users[u].enabled => e)
      BY <1>1, <1>3, <1>11 DEF PutsOut, p, e
    <2>3. SessionsAreOfNow'
      <3>1. SUFFICES ASSUME NEW t \in Tokens, sessions[t] # Absent
                     PROVE  LET v == sessions[t].user IN
                            /\ users'[v] # Absent /\ users'[v].enabled
                            /\ users'[v].password = sessions[t].password
                            /\ users'[v].profile = sessions[t].profile
        BY <2>1 DEF SessionsAreOfNow
      <3>2. sessions[t].user \in Users
        BY <3>1 DEF AccountsInv, AccountsShape
      <3>3. CASE sessions[t].user = u
        BY <1>7, <2>2, <3>1, <3>3 DEF AccountsInv, SessionsAreOfNow
      <3>4. CASE sessions[t].user # u
        BY <1>6, <3>1, <3>2, <3>4 DEF AccountsInv, SessionsAreOfNow
      <3>5. QED
        BY <3>3, <3>4
    <2>4. QED
      BY <1>6, <1>9, <2>1, <2>3 DEF AccountsInv, AccountsShape
  <1>12. QED
    BY <1>10, <1>11
\* A commit, accepted or refused, keeps the invariant.
LEMMA Committed ==
  ASSUME AccountsSane, AccountsInv, DecisionsStand, NEW w \in Workers, CommitRequest(w)
  PROVE  AccountsInv'
  <1> DEFINE r == requests[w]
  <1>1. r # Absent /\ requests' = [requests EXCEPT ![w] = Absent] /\ Holds(r)
    BY DEF CommitRequest, AccountsInv, Pending
  <1>2. Pending' /\ requests' = [v \in Workers |-> requests'[v]]
    BY <1>1, OthersPending
  <1>3. /\ SessionsAreOfNow' /\ LastAdminStays'
        /\ users' \in [Users -> Stored \cup {Absent}]
        /\ sessions' \in [Tokens -> [user : Users, password : Nat, profile : Profiles,
                                     expired : BOOLEAN] \cup {Absent}]
    <2>1. CASE ~Admitted(r)
      <3>1. UNCHANGED <<users, sessions>>
        BY <2>1 DEF CommitRequest
      <3>2. QED
        BY <3>1 DEF AccountsInv, AccountsShape, LastAdminStays, ActiveAdmins, is_admin, SessionsAreOfNow
    <2>2. CASE Admitted(r)
      <3>1. Written(r)
        BY <2>2 DEF CommitRequest
      <3>2. r.op \in {"login", "logout", "password", "create profile", "update profile",
                      "delete profile", "create user", "update user", "delete user"}
        BY <1>1 DEF Holds
      <3> HIDE DEF r
      <3>3. CASE r.op = "login"
        BY <1>1, <2>2, <3>1, <3>3, LoginCommitted
      <3>4. CASE r.op = "logout"
        BY <3>1, <3>4, LogoutCommitted
      <3>5. CASE r.op = "password"
        BY <1>1, <2>2, <3>1, <3>5, PasswordCommitted
      <3>6. CASE r.op = "create user"
        BY <1>1, <2>2, <3>1, <3>6, CreationCommitted
      <3>7. CASE r.op = "update user"
        BY <1>1, <2>2, <3>1, <3>7, UpdateCommitted
      <3>8. CASE r.op = "delete user"
        BY <1>1, <2>2, <3>1, <3>8, DeletionCommitted
      <3>9. CASE r.op \in {"create profile", "update profile", "delete profile"}
        <4>1. users' = users /\ sessions' = sessions
          BY <3>1, <3>9 DEF Written
        <4>2. QED
          BY <4>1 DEF AccountsInv, AccountsShape, LastAdminStays, ActiveAdmins, is_admin, SessionsAreOfNow
      <3>10. QED
        BY <3>2, <3>3, <3>4, <3>5, <3>6, <3>7, <3>8, <3>9
    <2>3. QED
      BY <2>1, <2>2
  <1>4. QED
    BY <1>2, <1>3 DEF AccountsInv, AccountsShape

\* Time passes over sessions only.
LEMMA TimePasses ==
  ASSUME AccountsInv, Expire \/ Cleanup
  PROVE  AccountsInv'
  <1>1. UNCHANGED <<users, requests>>
    BY DEF Expire, Cleanup
  <1>2. \A w \in Workers : requests[w] # Absent => Holds(requests[w])'
    BY <1>1, HoldsKept DEF AccountsInv, Pending
  <1>3. Pending' /\ LastAdminStays'
    BY <1>1, <1>2 DEF AccountsInv, Pending, LastAdminStays, ActiveAdmins, is_admin
  <1>4. CASE Expire
    <2>1. PICK t \in Tokens : sessions[t] # Absent /\ sessions' = [sessions EXCEPT ![t].expired = TRUE]
      BY <1>4 DEF Expire
    <2>2. sessions[t] \in [user : Users, password : Nat, profile : Profiles, expired : BOOLEAN]
      BY <2>1 DEF AccountsInv, AccountsShape
    <2>3. /\ [sessions[t] EXCEPT !.expired = TRUE]
               \in [user : Users, password : Nat, profile : Profiles, expired : BOOLEAN]
          /\ [sessions[t] EXCEPT !.expired = TRUE].user = sessions[t].user
          /\ [sessions[t] EXCEPT !.expired = TRUE].password = sessions[t].password
          /\ [sessions[t] EXCEPT !.expired = TRUE].profile = sessions[t].profile
      BY <2>2
    <2>4. \A s \in Tokens : sessions'[s] = IF s = t THEN [sessions[t] EXCEPT !.expired = TRUE]
                                           ELSE sessions[s]
      BY <2>1 DEF AccountsInv, AccountsShape
    <2>5. AccountsShape'
      BY <1>1, <2>1, <2>3 DEF AccountsInv, AccountsShape
    <2>6. SessionsAreOfNow'
      BY <1>1, <2>1, <2>3, <2>4 DEF AccountsInv, SessionsAreOfNow
    <2>7. QED
      BY <1>3, <2>5, <2>6 DEF AccountsInv
  <1>5. CASE Cleanup
    <2>1. \A t \in Tokens : sessions'[t] \in {sessions[t], Absent}
      BY <1>5 DEF Cleanup
    <2>2. sessions' = [t \in Tokens |-> sessions'[t]]
      BY <1>5 DEF Cleanup
    <2>3. AccountsShape' /\ SessionsAreOfNow'
      BY <1>1, <2>1, <2>2 DEF AccountsInv, AccountsShape, SessionsAreOfNow
    <2>4. QED
      BY <1>3, <2>3 DEF AccountsInv
  <1>6. QED
    BY <1>4, <1>5

\* One case per action of AccessNext.
LEMMA InvNext ==
  ASSUME AccountsSane
  PROVE  AccountsInv /\ [AccessNext]_access /\ [DecisionsStand]_access => AccountsInv'
  <1> SUFFICES ASSUME AccountsInv, [AccessNext]_access, [DecisionsStand]_access
               PROVE  AccountsInv'
    OBVIOUS
  <1>1. CASE UNCHANGED access
    <2>1. UNCHANGED <<users, profiles, sessions, requests>>
      BY <1>1 DEF access
    <2>2. \A w \in Workers : requests[w] # Absent => Holds(requests[w])'
      BY <2>1, HoldsKept DEF AccountsInv, Pending
    <2>3. QED
      BY <2>1, <2>2 DEF AccountsInv, AccountsShape, Pending, LastAdminStays, ActiveAdmins, is_admin,
                        SessionsAreOfNow
  <1>2. CASE access' # access
    <2>1. AccessNext /\ DecisionsStand
      BY <1>2
    <2>2. QED
      BY <2>1, SessionRequests, ProfileRequests, UserRequests, Committed, TimePasses DEF AccessNext
  <1>3. QED
    BY <1>1, <1>2

-----------------------------------------------------------------------------
\* However many workers interleave their requests, the dashboard keeps an
\* enabled account that holds the system profile: the guard of an update or of
\* a deletion (assert_last_admin_survives) still holds when it is committed.
\* One thing has to stay out, which the code leaves to the timing of two
\* requests: an account that changes between what another request has read of
\* it and the commit of that request.
THEOREM AnAdminRemains ==
  ASSUME AccountsSane
  PROVE  AccessSpec /\ [][DecisionsStand]_access => []LastAdminStays
  <1>1. AccessInit => AccountsInv
    BY AccountsAtFirst
  <1>2. AccountsInv /\ [AccessNext]_access /\ [DecisionsStand]_access => AccountsInv'
    BY InvNext
  <1>3. AccountsInv => LastAdminStays
    BY DEF AccountsInv
  <1>4. QED
    BY <1>1, <1>2, <1>3, PTL DEF AccessSpec

\* However many workers interleave their requests, a session stands for an
\* enabled account with the password and the profile it was opened with: every
\* commit that changes one of them puts it out, under the same reservation.
THEOREM SessionsFollowAccounts ==
  ASSUME AccountsSane
  PROVE  AccessSpec /\ [][DecisionsStand]_access => []SessionsAreOfNow
  <1>1. AccessInit => AccountsInv
    BY AccountsAtFirst
  <1>2. AccountsInv /\ [AccessNext]_access /\ [DecisionsStand]_access => AccountsInv'
    BY InvNext
  <1>3. AccountsInv => SessionsAreOfNow
    BY DEF AccountsInv
  <1>4. QED
    BY <1>1, <1>2, <1>3, PTL DEF AccessSpec

-----------------------------------------------------------------------------
\* Somebody with every right of the catalogue passes each guard of a route.
Passable(route) == \A any \in route.guards : any \cap PERMISSION_KEYS # {}

\* A guard that names a right of the catalogue is passable.
LEMMA NamesARight ==
  ASSUME NEW any, NEW right \in any, right \in PERMISSION_KEYS
  PROVE  /\ \A name : Passable(Operators(name, any))
         /\ \A name, keys : Passable(Route(name, keys, {any}))
  BY DEF Passable, Operators, Route

\* A figure asks for one right, and a profile can be given it.
LEMMA FiguresPassable == \A route \in Figures : Passable(route)
  <1>1. \A right \in {"fai.stats", "clients.count", "dashboard.stats", "capacity.totals",
                      "sites.client_counts"} : right \in PERMISSION_KEYS
    BY DEF PERMISSION_KEYS, DataRights
  <1>2. \A right \in {"fai.stats", "clients.count", "dashboard.stats", "capacity.totals",
                      "sites.client_counts"} : \A name : Passable(Operators(name, {right}))
    BY <1>1, NamesARight
  <1>3. QED
    BY <1>2 DEF Figures

\* The guards put on whole routers.
LEMMA RoutersPassable == \A route \in Routers : Passable(route)
  <1> DEFINE Asked == {"dashboard.view", "sites.view", "map.view", "fai.view", "fai.block",
                       "fai.journal.view", "fai.router_rules.view", "fai.content_filter.edit",
                       "incidents.view", "lr_health.view", "clients.view", "capacity.view",
                       "uptime.view", "topology.view", "traffic.view", "uisp.sync",
                       "uisp.assign", "uisp.antenna_remove"}
             Journal == {"fai.journal.view", "fai.requests.view"}
             Uptime == {"uptime.view", "dashboard.view", "reports.view", "sites.view"}
  <1>1. \A right \in Asked : right \in PERMISSION_KEYS
    BY DEF PERMISSION_KEYS, PageRights, ActionRights
  <1>2. \A right \in Asked : \A name : Passable(Operators(name, {right}))
    BY <1>1, NamesARight
  <1>3. \A right \in Asked : \A name, keys : Passable(Route(name, keys, {{right}}))
    BY <1>1, NamesARight
  <1>4. \A name : Passable(Operators(name, Journal)) /\ Passable(Operators(name, Uptime))
    <2>1. "fai.journal.view" \in PERMISSION_KEYS /\ "uptime.view" \in PERMISSION_KEYS
      BY <1>1
    <2>2. QED
      BY <2>1, NamesARight
  <1>5. \A name, keys : Passable(Route(name, keys, {}))
    BY DEF Passable, Route
  <1>6. \A route \in Routers :
           \/ \E name : \E right \in Asked : route = Operators(name, {right})
           \/ \E name, keys : \E right \in Asked : route = Route(name, keys, {{right}})
           \/ \E name : route \in {Operators(name, Journal), Operators(name, Uptime)}
           \/ \E name, keys : route = Route(name, keys, {})
    BY Zenon DEF Routers
  <1> HIDE DEF Asked, Journal, Uptime
  <1>7. QED
    <2> SUFFICES ASSUME NEW route \in Routers PROVE Passable(route)
      OBVIOUS
    <2>1. CASE \E name : \E right \in Asked : route = Operators(name, {right})
      BY <1>2, <2>1
    <2>2. CASE \E name, keys : \E right \in Asked : route = Route(name, keys, {{right}})
      BY <1>3, <2>2
    <2>3. CASE \E name : route \in {Operators(name, Journal), Operators(name, Uptime)}
      BY <1>4, <2>3
    <2>4. CASE \E name, keys : route = Route(name, keys, {})
      BY <1>5, <2>4
    <2>5. QED
      BY <1>6, <2>1, <2>2, <2>3, <2>4

\* The guards put on single endpoints.
LEMMA EndpointsPassable == \A route \in Endpoints : Passable(route)
  <1> DEFINE Asked == {"devices.create", "devices.edit", "devices.delete", "devices.diagnostics",
                       "fai.block", "devices.plan_sync", "devices.enroll_uisp",
                       "fai.content_filter.edit", "devices.power_output",
                       "access_diagnostics.view", "uisp.assign", "access_diagnostics.enroll",
                       "manual_alerts.acknowledge", "thresholds.edit", "system.test_whatsapp",
                       "broadcast.send", "admin.access", "admin.profiles", "admin.users",
                       "topology.view", "topology.export", "topology.sync", "sites.view"}
             Export == {{"topology.view"}, {"topology.export"}}
             Sync == {{"topology.view"}, {"topology.sync"}}
             Several == {DEVICE_READ_PERMISSIONS, {"fai.content_filter.view", "fai.content_filter.edit"},
                         {"thresholds.view", "thresholds.edit"}, {"broadcast.view", "broadcast.send"}}
  <1>1. \A right \in Asked : right \in PERMISSION_KEYS
    BY DEF PERMISSION_KEYS, PageRights, ActionRights
  <1>2. \A right \in Asked : \A name : Passable(Operators(name, {right}))
    BY <1>1, NamesARight
  <1>3. \A any \in Several : \A name : Passable(Operators(name, any))
    <2>1. \A any \in Several : \E right \in Asked : right \in any
      BY DEF DEVICE_READ_PERMISSIONS
    <2>2. QED
      BY <1>1, <2>1, NamesARight
  <1>4. \A name, keys : Passable(Route(name, keys, Export)) /\ Passable(Route(name, keys, Sync))
    <2>1. {"topology.view", "topology.export", "topology.sync"} \subseteq PERMISSION_KEYS
      BY <1>1
    <2>2. QED
      BY <2>1 DEF Passable, Route
  <1>5. \A route \in Endpoints :
           \/ \E name : \E right \in Asked : route = Operators(name, {right})
           \/ \E name : \E any \in Several : route = Operators(name, any)
           \/ \E name, keys : route \in {Route(name, keys, Export), Route(name, keys, Sync)}
    BY Zenon DEF Endpoints
  <1> HIDE DEF Asked, Export, Sync, Several
  <1>6. QED
    <2> SUFFICES ASSUME NEW route \in Endpoints PROVE Passable(route)
      OBVIOUS
    <2>1. CASE \E name : \E right \in Asked : route = Operators(name, {right})
      BY <1>2, <2>1
    <2>2. CASE \E name : \E any \in Several : route = Operators(name, any)
      BY <1>3, <2>2
    <2>3. CASE \E name, keys : route \in {Route(name, keys, Export), Route(name, keys, Sync)}
      BY <1>4, <2>3
    <2>4. QED
      BY <1>5, <2>1, <2>2, <2>3

\* Whoever holds every right of the catalogue passes wherever an administrator
\* does, on every route of the tables, whatever the accounts and profiles: no
\* guard asks for a right that cannot be granted.
THEOREM EveryRightOpensEveryRoute == AccessSpec => []NothingOnlyForAdmins
  <1>1. \A route \in Routes : Passable(route)
    BY RoutersPassable, EndpointsPassable, FiguresPassable DEF Routes
  <1>2. ASSUME NEW u \in Users, users[u] # Absent,
               profiles[users[u].profile] = PERMISSION_KEYS
        PROVE  effective_permissions(u) = PERMISSION_KEYS
    BY <1>2 DEF effective_permissions, normalize_permissions
  <1>3. NothingOnlyForAdmins
    BY <1>1, <1>2 DEF NothingOnlyForAdmins, OpenToRights, Passable
  <1>4. QED
    BY <1>3, PTL DEF AccessSpec
(***************************************************************************)
(* What TLAPS proves about Notifications, for any number of passes, of     *)
(* devices and of overrides, any fate of the messages, and any number of   *)
(* passes undone.                                                          *)
(***************************************************************************)

Findings == {"fine", "warning", "critical"}
Severe == {"warning", "critical"}
Incident == [opened : Severe, severity : Severe, digested : BOOLEAN]
Message == Keys \X Events
PassOf(j) == [left : SUBSET Mine(j), rows : [Mine(j) -> Incident \union {None}],
              told : SUBSET Mine(j), sending : Message \union {None}]
Digest == [items : SUBSET Keys, gone : BOOLEAN]

\* The constants mean what their comments say.
PassesSane ==
    /\ IsFiniteSet(Jobs)
    /\ Owner \in [Keys -> Jobs]
    /\ None \notin Incident /\ None \notin Message /\ None \notin Digest /\ None \notin Events
    /\ \A j \in Jobs : None \notin PassOf(j)
    /\ Cooldown \in Nat \ {0} /\ MaxFailures \in Nat
    /\ \A k \in Keys : Policy(k).recovery_notification \in BOOLEAN /\ Policy(k).groupable \in BOOLEAN

\* No override makes an alert the digest's that the table leaves to no digest.
NoneWidened == \A k \in Keys : Policy(k).groupable => get_policy(Type[k]).groupable

-----------------------------------------------------------------------------
(* The invariants.                                                         *)
OwnPass(j) ==
    /\ pass[j] \in PassOf(j) \union {None}
    /\ pass[j] # None /\ pass[j].sending # None => pass[j].sending[1] \in pass[j].told

PassesShape ==
    /\ incidents \in [Keys -> Incident \union {None}]
    /\ pass = [j \in Jobs |-> pass[j]] /\ \A j \in Jobs : OwnPass(j)
    /\ digest \in Digest \union {None}
    /\ channel \in [cooling : Nat, streak : Nat]
    /\ said \in [Keys -> Events \union {None}]
    /\ torn \subseteq Keys

\* A digest holds rows that are there, until one of them goes.
DigestHolds ==
    digest # None /\ ~digest.gone => \A k \in digest.items : incidents[k] # None

Sending == {j \in Jobs : pass[j] # None /\ pass[j].sending # None}

\* While the channel cools nobody starts to send: those that hung and those
\* that still wait are different passes.
Waits ==
    /\ hung \in Nat
    /\ channel.cooling = 0 => hung = 0
    /\ hung + Cardinality(Sending) <= Cardinality(Jobs)

\* What the group knows, or will once the message under way has its answer.
Heard(k) ==
    LET p == pass[Owner[k]]
    IN  IF p # None /\ p.sending # None /\ p.sending[1] = k THEN p.sending[2] ELSE said[k]

\* A row, and the last word about its key.
Matches(k, row, word) ==
    IF row = None THEN word = "opened" => ~Policy(k).recovery_notification
    ELSE ~Deferred(Policy(k), row.opened, "opened") => word = "opened"

\* What a pass has told, it has on its rows; of the rest the table is right.
TableIsRight(k) ==
    pass[Owner[k]] = None \/ k \notin pass[Owner[k]].told => Matches(k, incidents[k], said[k])
PassIsRight(k) ==
    pass[Owner[k]] # None => Matches(k, pass[Owner[k]].rows[k], Heard(k))
Known(k) == k \notin torn /\ Type[k] \in Sent => TableIsRight(k) /\ PassIsRight(k)

-----------------------------------------------------------------------------
(* The table of policies.                                                  *)
Entry == [severity : {"critical", "warning", "dynamic", "info"}, notify_immediately : BOOLEAN,
          channels : {Channels}, groupable : BOOLEAN, recovery_notification : BOOLEAN]

\* Every row of the table is an entry.
LEMMA RowIsEntry ==
  ASSUME NEW s \in {"critical", "warning", "dynamic", "info"},
         NEW i \in BOOLEAN, NEW g \in BOOLEAN, NEW r \in BOOLEAN
  PROVE  Row(s, i, g, r) \in Entry
  BY DEF Row, Entry

\* The policy of a type, listed or not, is an entry.
LEMMA PolicyIsEntry ==
  ASSUME NEW type
  PROVE  get_policy(type) \in Entry
  <1>1. ASSUME NEW shared \in Rows
        PROVE  shared.row \in Entry
    <2>1. \E types : \E row \in Entry : shared = [types |-> types, row |-> row]
      BY RowIsEntry, Zenon DEF Rows
    <2>2. QED
      BY <2>1
  <1>2. FallbackPolicy \in Entry
    BY RowIsEntry DEF FallbackPolicy
  <1>3. CASE type \in DOMAIN ALERT_POLICIES
    <2>1. \E shared \in Rows : type \in shared.types
      BY <1>3 DEF ALERT_POLICIES
    <2>2. (CHOOSE shared \in Rows : type \in shared.types) \in Rows
      BY <2>1
    <2>3. ALERT_POLICIES[type] = (CHOOSE shared \in Rows : type \in shared.types).row
      BY <1>3 DEF ALERT_POLICIES
    <2>4. QED
      BY <1>1, <1>3, <2>2, <2>3 DEF get_policy
  <1>4. CASE type \notin DOMAIN ALERT_POLICIES
    BY <1>2, <1>4 DEF get_policy
  <1>5. QED
    BY <1>3, <1>4

\* No override silences WhatsApp: a list of channels of which none is known
\* leaves those of the table.
LEMMA NeverSilenced ==
  ASSUME NEW type, NEW overrides
  PROVE  "whatsapp" \in get_policy_for_device(type, overrides).channels
  <1>1. get_policy(type).channels = {"whatsapp"} /\ "channels" \in DOMAIN get_policy(type)
    BY PolicyIsEntry DEF Entry, Channels
  <1>2. CASE type \in DOMAIN overrides
    <2>1. get_policy_for_device(type, overrides).channels
            = MergedField(get_policy(type), overrides[type], "channels")
      BY <1>1, <1>2 DEF get_policy_for_device, merge_overrides
    <2>2. QED
      BY <1>1, <2>1 DEF MergedField, Channels
  <1>3. CASE type \notin DOMAIN overrides
    BY <1>1, <1>3 DEF get_policy_for_device
  <1>4. QED
    BY <1>2, <1>3

\* Nothing is told of a row.
Quiet(k, row, seen) ==
    \/ EventOf(row, seen) = None
    \/ Gated(k, EventOf(row, seen), IF seen = "fine" THEN row.severity ELSE seen)

\* What the gates hold back needs no word.
LEMMA GatedMatches ==
  ASSUME PassesSane, NEW k \in Keys, Type[k] \in Sent, NEW row \in Incident \union {None},
         NEW seen \in Findings, NEW word, Matches(k, row, word), Quiet(k, row, seen)
  PROVE  Matches(k, RowAfter(row, seen), word)
  <1>1. "whatsapp" \in Policy(k).channels
    BY NeverSilenced DEF Policy
  <1>2. CASE row = None /\ seen # "fine"
    <2>1. EventOf(row, seen) = "opened" /\ "opened" # None
      BY <1>2 DEF EventOf, PassesSane, Events
    <2>2. Deferred(Policy(k), seen, "opened")
      BY <1>1, <1>2, <2>1 DEF Findings, Quiet, Gated, should_notify
    <2>3. RowAfter(row, seen) = Fresh(seen) /\ Fresh(seen) \in Incident /\ Fresh(seen).opened = seen
      BY <1>2 DEF Findings, RowAfter, Fresh, Incident, Severe
    <2>4. QED
      BY <2>2, <2>3 DEF Matches, PassesSane
  <1>3. CASE row # None /\ seen = "fine"
    <2>1. EventOf(row, seen) = "resolved" /\ "resolved" # None
      BY <1>3 DEF EventOf, PassesSane, Events
    <2>2. row.severity \in Severe
      BY <1>3 DEF Incident
    <2>3. ~Policy(k).recovery_notification
      BY <1>1, <1>3, <2>1, <2>2 DEF Quiet, Gated, should_notify, Deferred, Severe
    <2>4. QED
      BY <1>3, <2>3 DEF Matches, RowAfter
  <1>4. CASE row = None /\ seen = "fine"
    BY <1>4 DEF RowAfter
  <1>5. CASE row # None /\ seen # "fine"
    <2>1. row \in Incident /\ RowAfter(row, seen) \in Incident
          /\ RowAfter(row, seen).opened = row.opened
      BY <1>5 DEF Findings, RowAfter, Incident, Severe
    <2>2. QED
      BY <1>5, <2>1 DEF Matches, PassesSane
  <1>6. QED
    BY <1>2, <1>3, <1>4, <1>5

\* What the gates let through is the right word.
LEMMA SaidMatches ==
  ASSUME PassesSane, NEW k \in Keys, NEW row \in Incident \union {None},
         NEW seen \in Findings, EventOf(row, seen) # None
  PROVE  Matches(k, RowAfter(row, seen), EventOf(row, seen)) /\ EventOf(row, seen) \in Events
  <1>1. EventOf(row, seen) \in Events
    BY DEF EventOf, Events
  <1>2. CASE row = None
    <2>1. EventOf(row, seen) = "opened" /\ RowAfter(row, seen) = Fresh(seen)
      BY <1>2 DEF EventOf, RowAfter
    <2>2. seen \in Severe
      BY <1>2 DEF Findings, EventOf, Severe
    <2>3. Fresh(seen) \in Incident
      BY <2>2 DEF Fresh, Incident
    <2>4. Fresh(seen) # None
      BY <2>3 DEF PassesSane
    <2>5. QED
      BY <1>1, <2>1, <2>4 DEF Matches
  <1>3. CASE row # None
    BY <1>1, <1>3 DEF EventOf, RowAfter, Matches
  <1>4. QED
    BY <1>1, <1>2, <1>3

\* A row that a look leaves is a row.
LEMMA RowAfterType ==
  ASSUME NEW row \in Incident \union {None}, NEW seen \in Findings
  PROVE  RowAfter(row, seen) \in Incident \union {None}
  BY DEF Findings, RowAfter, Fresh, Incident, Severe

-----------------------------------------------------------------------------
(* The shape of the state.                                                 *)
\* What a look leaves of its pass.
Looked(j, k, seen) ==
    [left    |-> pass[j].left \ {k},
     rows    |-> [pass[j].rows EXCEPT ![k] = RowAfter(pass[j].rows[k], seen)],
     told    |-> IF Quiet(k, pass[j].rows[k], seen) THEN pass[j].told ELSE pass[j].told \union {k},
     sending |-> IF Quiet(k, pass[j].rows[k], seen) \/ Cooling THEN None
                 ELSE <<k, EventOf(pass[j].rows[k], seen)>>]

\* A look leaves a pass of its job.
LEMMA LookPass ==
  ASSUME PassesSane, PassesShape, NEW j \in Jobs, NEW k \in Keys, NEW seen \in Findings, Look(j, k, seen)
  PROVE  /\ pass[j] \in PassOf(j) /\ pass[j] # None /\ pass[j].sending = None
         /\ k \in Mine(j) /\ pass[j].rows[k] \in Incident \union {None}
         /\ pass' = [i \in Jobs |-> IF i = j THEN Looked(j, k, seen) ELSE pass[i]]
         /\ Looked(j, k, seen) \in PassOf(j)
  <1> DEFINE p == pass[j]
             row == p.rows[k]
             quiet == Quiet(k, row, seen)
             told == IF quiet THEN p.told ELSE p.told \union {k}
             sending == IF quiet \/ Cooling THEN None ELSE <<k, EventOf(row, seen)>>
             after == [p.rows EXCEPT ![k] = RowAfter(row, seen)]
             next == [left |-> p.left \ {k}, rows |-> after, told |-> told, sending |-> sending]
  <1>1. p # None /\ p.sending = None /\ k \in p.left
    BY DEF Look
  <1>2. p \in PassOf(j) /\ k \in Mine(j) /\ row \in Incident \union {None}
    BY <1>1 DEF PassesShape, OwnPass, PassOf
  <1>3. pass' = [pass EXCEPT ![j] = next]
    <2>2. pass' = [pass EXCEPT ![j].left = @ \ {k},
                               ![j].rows[k] = RowAfter(row, seen),
                               ![j].told = IF quiet THEN @ ELSE @ \union {k},
                               ![j].sending = sending]
      BY DEF Look, Quiet
    <2> DEFINE next1 == [[[[p EXCEPT !.left = p.left \ {k}] EXCEPT !.rows = after]
                              EXCEPT !.told = told] EXCEPT !.sending = sending]
    <2>3. next1 = next
      <3> HIDE DEF p, told, sending, after
      <3>1. p \in [left : SUBSET Mine(j), rows : [Mine(j) -> Incident \union {None}],
                   told : SUBSET Mine(j), sending : Message \union {None}]
        BY <1>2 DEF PassOf
      <3>2. next1 \in [left : {p.left \ {k}}, rows : {after}, told : {told}, sending : {sending}]
        BY <3>1
      <3> HIDE DEF next1
      <3>3. QED
        BY <3>2
    <2>4. pass' = [pass EXCEPT ![j] = next1]
      <3> HIDE DEF quiet, sending, row
      <3>1. QED
        BY <1>2, <2>2 DEF PassesShape, PassOf
    <2>5. QED
      BY <2>3, <2>4
  <1>5. ~quiet => EventOf(row, seen) \in Events
    BY DEF Quiet, EventOf, Events
  <1>6. RowAfter(row, seen) \in Incident \union {None}
    BY <1>2, RowAfterType
  <1>7. next \in PassOf(j)
    <2>1. after \in [Mine(j) -> Incident \union {None}]
      BY <1>2, <1>6 DEF PassOf
    <2>2. sending \in Message \union {None}
      BY <1>5 DEF Message
    <2>3. told \in SUBSET Mine(j) /\ p.left \ {k} \in SUBSET Mine(j)
      BY <1>2 DEF PassOf
    <2> HIDE DEF told, sending, after
    <2>4. QED
      BY <2>1, <2>2, <2>3 DEF PassOf
  <1>8. pass' = [i \in Jobs |-> IF i = j THEN next ELSE pass[i]]
    BY <1>3 DEF PassesShape
  <1>9. next = Looked(j, k, seen)
    BY DEF Looked
  <1> HIDE DEF next
  <1>10. QED
    BY <1>1, <1>2, <1>7, <1>8, <1>9

\* The message a look tells of, the one it leaves its pass sending, the rows.
LEMMA LookTells ==
  ASSUME PassesSane, PassesShape, NEW j \in Jobs, NEW k \in Keys, NEW seen \in Findings, Look(j, k, seen)
  PROVE  /\ pass' = [i \in Jobs |-> IF i = j THEN pass'[j] ELSE pass[i]]
         /\ pass'[j] \in PassOf(j) /\ pass'[j] # None
         /\ pass'[j].told = IF Quiet(k, pass[j].rows[k], seen) THEN pass[j].told
                            ELSE pass[j].told \union {k}
         /\ pass'[j].sending = IF Quiet(k, pass[j].rows[k], seen) \/ Cooling THEN None
                               ELSE <<k, EventOf(pass[j].rows[k], seen)>>
         /\ pass'[j].rows = [pass[j].rows EXCEPT ![k] = RowAfter(pass[j].rows[k], seen)]
  <1>1. /\ pass' = [i \in Jobs |-> IF i = j THEN Looked(j, k, seen) ELSE pass[i]]
        /\ Looked(j, k, seen) \in PassOf(j)
    BY LookPass
  <1>2. pass'[j] = Looked(j, k, seen) /\ Looked(j, k, seen) # None
    BY <1>1 DEF PassesSane
  <1>3. QED
    BY <1>1, <1>2 DEF Looked

\* What the end of a delivery leaves of its pass.
LEMMA DeliveredPass ==
  ASSUME PassesSane, PassesShape, NEW j \in Jobs, NEW outcome, Delivered(j, outcome)
  PROVE  /\ pass[j] \in PassOf(j) /\ pass[j] # None /\ pass[j].sending \in Message
         /\ pass[j].sending[1] \in pass[j].told
         /\ pass' = [i \in Jobs |-> IF i = j THEN pass'[j] ELSE pass[i]]
         /\ pass'[j] \in PassOf(j) /\ pass'[j] # None /\ pass'[j].sending = None
         /\ pass'[j].rows = pass[j].rows /\ pass'[j].told = pass[j].told
         /\ said' = [said EXCEPT ![pass[j].sending[1]] = pass[j].sending[2]]
         /\ incidents' = incidents /\ torn' = torn
  <1>1. /\ pass[j] # None /\ pass[j].sending # None
        /\ pass' = [pass EXCEPT ![j] = [pass[j] EXCEPT !.sending = None]]
        /\ said' = [said EXCEPT ![pass[j].sending[1]] = pass[j].sending[2]]
        /\ incidents' = incidents /\ torn' = torn
    BY DEF Delivered
  <1>2. pass[j] \in PassOf(j) /\ pass[j].sending[1] \in pass[j].told
    BY <1>1 DEF PassesShape, OwnPass
  <1>3. pass[j].sending \in Message
    BY <1>1, <1>2 DEF PassOf
  <1> DEFINE next == [pass[j] EXCEPT !.sending = None]
  <1>4. /\ next \in PassOf(j) /\ next.sending = None
        /\ next.rows = pass[j].rows /\ next.told = pass[j].told
    BY <1>2 DEF PassOf
  <1>5. next # None
    BY <1>4 DEF PassesSane
  <1> HIDE DEF next
  <1>6. pass'[j] = next /\ pass' = [i \in Jobs |-> IF i = j THEN next ELSE pass[i]]
    BY <1>1 DEF PassesShape, next
  <1>7. QED
    BY <1>1, <1>2, <1>3, <1>4, <1>5, <1>6

\* The row a commit writes is the row of the pass, but for the digest's mark.
LEMMA KeptRow ==
  ASSUME NEW row \in Incident \union {None}, NEW current \in Incident \union {None},
         None \notin Incident
  PROVE  /\ Kept(row, current) \in Incident \union {None}
         /\ Kept(row, current) = None <=> row = None
         /\ row # None => Kept(row, current).opened = row.opened
  <1>1. CASE row = None \/ current = None
    BY <1>1 DEF Kept
  <1>2. CASE row # None /\ current # None
    <2>1. Kept(row, current) = [row EXCEPT !.digested = current.digested]
      BY <1>2 DEF Kept
    <2>2. Kept(row, current) \in Incident /\ Kept(row, current).opened = row.opened
      BY <1>2, <2>1 DEF Incident
    <2>3. QED
      BY <1>2, <2>2
  <1>3. QED
    BY <1>1, <1>2

\* The end of a digest marks rows that are there.
LEMMA DigestEndRows ==
  ASSUME PassesSane, PassesShape, DigestHolds, DigestEnd, NEW k \in Keys
  PROVE  /\ incidents'[k] \in Incident \union {None}
         /\ incidents'[k] = None <=> incidents[k] = None
         /\ incidents[k] # None => incidents'[k].opened = incidents[k].opened
  <1>1. PICK ok \in BOOLEAN :
          /\ digest # None
          /\ incidents' = [m \in Keys |->
               IF ok /\ ~digest.gone /\ m \in digest.items
               THEN [incidents[m] EXCEPT !.digested = TRUE] ELSE incidents[m]]
    BY DEF DigestEnd
  <1>2. incidents[k] \in Incident \union {None}
    BY DEF PassesShape
  <1>3. CASE ok /\ ~digest.gone /\ k \in digest.items
    <2>1. incidents[k] \in Incident
      BY <1>1, <1>2, <1>3 DEF DigestHolds
    <2>2. incidents'[k] = [incidents[k] EXCEPT !.digested = TRUE]
      BY <1>1, <1>3
    <2>3. incidents'[k] \in Incident /\ incidents'[k].opened = incidents[k].opened
      BY <2>1, <2>2 DEF Incident
    <2>4. QED
      BY <2>1, <2>3 DEF PassesSane
  <1>4. CASE ~(ok /\ ~digest.gone /\ k \in digest.items)
    BY <1>1, <1>2, <1>4
  <1>5. QED
    BY <1>3, <1>4

\* One pass moves, the others stay.
LEMMA OneMoves ==
  ASSUME PassesShape, NEW j \in Jobs, OwnPass(j)',
         pass' = [i \in Jobs |-> IF i = j THEN pass'[j] ELSE pass[i]]
  PROVE  pass' = [i \in Jobs |-> pass'[i]] /\ \A i \in Jobs : OwnPass(i)'
  <1>1. \A i \in Jobs : i # j => pass'[i] = pass[i]
    OBVIOUS
  <1>2. QED
    BY <1>1 DEF PassesShape, OwnPass

\* The channel after a delivery.
LEMMA StreakedType ==
  ASSUME PassesSane, PassesShape, NEW ok \in BOOLEAN, NEW cutOff \in BOOLEAN
  PROVE  /\ Streaked(ok, cutOff) \in [cooling : Nat, streak : Nat]
         /\ Streaked(ok, cutOff).cooling = 0 => channel.cooling = 0
         /\ cutOff /\ ~ok => Streaked(ok, cutOff).cooling # 0
  <1>1. channel \in [cooling : Nat, streak : Nat] /\ Cooldown \in Nat \ {0} /\ MaxFailures \in Nat
    BY DEF PassesSane, PassesShape
  <1>2. CASE ok
    <2>1. Streaked(ok, cutOff) = [channel EXCEPT !.streak = 0]
      BY <1>2 DEF Streaked
    <2>2. /\ [channel EXCEPT !.streak = 0] \in [cooling : Nat, streak : Nat]
          /\ [channel EXCEPT !.streak = 0].cooling = channel.cooling
      BY <1>1
    <2>3. QED
      BY <1>2, <2>1, <2>2
  <1>3. CASE ~ok /\ channel.streak + 1 >= MaxFailures
    <2>1. Streaked(ok, cutOff) = [cooling |-> Cooldown, streak |-> 0]
      BY <1>3 DEF Streaked
    <2>2. QED
      BY <1>1, <2>1
  <1>4. CASE ~ok /\ ~(channel.streak + 1 >= MaxFailures)
    <2>1. Streaked(ok, cutOff) = [cooling |-> IF cutOff THEN Cooldown ELSE channel.cooling,
                                  streak |-> channel.streak + 1]
      BY <1>4 DEF Streaked
    <2>2. QED
      BY <1>1, <2>1
  <1>5. QED
    BY <1>2, <1>3, <1>4

\* The passes after any step.
LEMMA PassNext ==
  ASSUME PassesSane, PassesShape, [Next]_vars
  PROVE  pass' = [j \in Jobs |-> pass'[j]] /\ \A j \in Jobs : OwnPass(j)'
  <1>1. ASSUME NEW j \in Jobs, Start(j)
        PROVE  pass' = [i \in Jobs |-> pass'[i]] /\ \A i \in Jobs : OwnPass(i)'
    <2> DEFINE next == [left |-> Mine(j), rows |-> [k \in Mine(j) |-> incidents[k]],
                        told |-> {}, sending |-> None]
    <2>1. next \in PassOf(j) /\ next.sending = None
      BY DEF PassesShape, PassOf, Mine
    <2>2. pass' = [i \in Jobs |-> IF i = j THEN next ELSE pass[i]]
      BY <1>1 DEF Start, PassesShape
    <2> HIDE DEF next
    <2>3. OwnPass(j)'
      BY <2>1, <2>2 DEF OwnPass
    <2>4. QED
      BY <2>2, <2>3, OneMoves
  <1>2. ASSUME NEW j \in Jobs, NEW k \in Keys, NEW seen \in Findings, Look(j, k, seen)
        PROVE  pass' = [i \in Jobs |-> pass'[i]] /\ \A i \in Jobs : OwnPass(i)'
    <2>1. /\ pass' = [i \in Jobs |-> IF i = j THEN pass'[j] ELSE pass[i]]
          /\ pass'[j] \in PassOf(j) /\ pass'[j] # None
          /\ pass'[j].told = IF Quiet(k, pass[j].rows[k], seen) THEN pass[j].told
                             ELSE pass[j].told \union {k}
          /\ pass'[j].sending = IF Quiet(k, pass[j].rows[k], seen) \/ Cooling THEN None
                                ELSE <<k, EventOf(pass[j].rows[k], seen)>>
          /\ pass'[j].rows = [pass[j].rows EXCEPT ![k] = RowAfter(pass[j].rows[k], seen)]
      BY <1>2, LookTells
    <2>2. pass'[j].sending # None => pass'[j].sending[1] \in pass'[j].told
      BY <2>1
    <2>3. OwnPass(j)'
      BY <2>1, <2>2 DEF OwnPass
    <2>4. QED
      BY <2>1, <2>3, OneMoves
  <1>3. ASSUME NEW j \in Jobs, Accepted(j) \/ Refused(j) \/ CutOff(j)
        PROVE  pass' = [i \in Jobs |-> pass'[i]] /\ \A i \in Jobs : OwnPass(i)'
    <2>1. /\ pass'[j] \in PassOf(j) /\ pass'[j].sending = None
          /\ pass' = [i \in Jobs |-> IF i = j THEN pass'[j] ELSE pass[i]]
      BY <1>3, DeliveredPass DEF Accepted, Refused, CutOff
    <2>2. OwnPass(j)'
      BY <2>1 DEF OwnPass
    <2>3. QED
      BY <2>1, <2>2, OneMoves
  <1>4. ASSUME NEW j \in Jobs, Commit(j) \/ Rollback(j)
        PROVE  pass' = [i \in Jobs |-> pass'[i]] /\ \A i \in Jobs : OwnPass(i)'
    <2>1. pass' = [i \in Jobs |-> IF i = j THEN None ELSE pass[i]]
      BY <1>4 DEF Commit, Rollback, PassesShape
    <2>2. OwnPass(j)'
      BY <2>1 DEF OwnPass
    <2>3. QED
      BY <2>1, <2>2, OneMoves
  <1>5. CASE Restart
    BY <1>5 DEF Restart, OwnPass
  <1>6. CASE pass' = pass
    BY <1>6 DEF PassesShape, OwnPass
  <1>7. QED
    BY <1>1, <1>2, <1>3, <1>4, <1>5, <1>6 DEF Next, Findings, DigestStart, DigestEnd, Tick, vars

\* The rows after any step.
LEMMA IncidentsNext ==
  ASSUME PassesSane, PassesShape, DigestHolds, [Next]_vars
  PROVE  incidents' \in [Keys -> Incident \union {None}]
  <1>1. ASSUME NEW j \in Jobs, Commit(j)
        PROVE  incidents' \in [Keys -> Incident \union {None}]
    <2>1. incidents' = [k \in Keys |-> IF k \in Mine(j) THEN Kept(pass[j].rows[k], incidents[k])
                                       ELSE incidents[k]]
      BY <1>1 DEF Commit
    <2>2. \A k \in Mine(j) : pass[j].rows[k] \in Incident \union {None}
      BY <1>1 DEF Commit, PassesShape, OwnPass, PassOf
    <2>3. \A k \in Keys : incidents[k] \in Incident \union {None}
      BY DEF PassesShape
    <2>4. \A k \in Mine(j) : Kept(pass[j].rows[k], incidents[k]) \in Incident \union {None}
      BY <2>2, <2>3, KeptRow DEF Mine, PassesSane
    <2>5. QED
      BY <2>1, <2>3, <2>4
  <1>2. CASE DigestEnd
    <2>1. incidents' = [k \in Keys |-> incidents'[k]]
      BY <1>2 DEF DigestEnd
    <2>2. QED
      BY <1>2, <2>1, DigestEndRows
  <1>3. CASE incidents' = incidents
    BY <1>3 DEF PassesShape
  <1>4. (\E j \in Jobs : Commit(j)) \/ DigestEnd \/ incidents' = incidents
    <2>1. \A j, k, seen : Look(j, k, seen) => incidents' = incidents
      BY DEF Look
    <2>2. QED
      BY <2>1
      DEF Next, Start, Accepted, Refused, CutOff, Delivered, Rollback, Restart, DigestStart,
          Tick, vars
  <1>5. QED
    BY <1>1, <1>2, <1>3, <1>4

\* The rest of the shape after any step.
LEMMA RestNext ==
  ASSUME PassesSane, PassesShape, [Next]_vars
  PROVE  /\ digest' \in Digest \union {None}
         /\ channel' \in [cooling : Nat, streak : Nat]
         /\ said' \in [Keys -> Events \union {None}]
         /\ torn' \subseteq Keys
  <1>1. /\ digest \in Digest \union {None} /\ channel \in [cooling : Nat, streak : Nat]
        /\ said \in [Keys -> Events \union {None}] /\ torn \subseteq Keys
    BY DEF PassesShape
  <1>2. ASSUME NEW j \in Jobs, NEW k \in Keys, NEW seen \in Findings, Look(j, k, seen)
        PROVE  digest' = digest /\ channel' = channel /\ torn' = torn
               /\ said' \in [Keys -> Events \union {None}]
    <2>1. digest' = digest /\ channel' = channel /\ torn' = torn
      BY <1>2 DEF Look
    <2>2. \/ said' = said
          \/ said' = [said EXCEPT ![k] = EventOf(pass[j].rows[k], seen)]
      BY <1>2 DEF Look
    <2>3. EventOf(pass[j].rows[k], seen) \in Events \union {None}
      BY DEF EventOf, Events
    <2>4. QED
      BY <1>1, <2>1, <2>2, <2>3
  <1>3. ASSUME NEW j \in Jobs, Accepted(j) \/ Refused(j) \/ CutOff(j)
        PROVE  digest' = digest /\ torn' = torn /\ channel' \in [cooling : Nat, streak : Nat]
               /\ said' \in [Keys -> Events \union {None}]
    <2>1. \E outcome \in {"ok", "no", "hang"} : Delivered(j, outcome)
      BY <1>3 DEF Accepted, Refused, CutOff
    <2>2. PICK outcome \in {"ok", "no", "hang"} : Delivered(j, outcome)
      BY <2>1
    <2>3. digest' = digest /\ torn' = torn
          /\ channel' = Streaked(outcome = "ok", outcome = "hang")
          /\ said' = [said EXCEPT ![pass[j].sending[1]] = pass[j].sending[2]]
      BY <2>2 DEF Delivered
    <2>4. pass[j].sending \in Message
      BY <2>2, DeliveredPass
    <2>5. (outcome = "ok") \in BOOLEAN /\ (outcome = "hang") \in BOOLEAN
      OBVIOUS
    <2>6. channel' \in [cooling : Nat, streak : Nat]
      BY <2>3, <2>5, StreakedType
    <2>7. QED
      BY <1>1, <2>3, <2>4, <2>6 DEF Message
  <1>4. ASSUME NEW j \in Jobs, Start(j) \/ Commit(j) \/ Rollback(j)
        PROVE  channel' = channel /\ said' = said /\ torn' \subseteq Keys
               /\ digest' \in Digest \union {None}
    <2>1. channel' = channel /\ said' = said
      BY <1>4 DEF Start, Commit, Rollback
    <2>2. CASE Start(j)
      BY <1>1, <2>1, <2>2 DEF Start
    <2>3. CASE Commit(j)
      <3>1. torn' = torn
        BY <2>3 DEF Commit
      <3>2. digest' = digest \/ \E gone \in BOOLEAN : digest # None /\ digest' = [digest EXCEPT !.gone = gone]
        <4> DEFINE gone == digest.gone \/ \E k \in digest.items \intersect Mine(j) : pass[j].rows[k] = None
        <4>1. digest' = IF digest = None THEN None ELSE [digest EXCEPT !.gone = gone]
          BY <2>3 DEF Commit
        <4>2. digest # None => gone \in BOOLEAN
          BY <1>1 DEF Digest
        <4> HIDE DEF gone
        <4>3. QED
          BY <4>1, <4>2
      <3>3. digest' \in Digest \union {None}
        BY <1>1, <3>2 DEF Digest
      <3>4. QED
        BY <1>1, <2>1, <3>1, <3>3
    <2>4. CASE Rollback(j)
      <3>1. digest' = digest /\ torn' = torn \union pass[j].told /\ pass[j] # None
        BY <2>4 DEF Rollback
      <3>2. pass[j].told \subseteq Keys
        BY <3>1 DEF PassesShape, OwnPass, PassOf, Mine
      <3>3. QED
        BY <1>1, <2>1, <3>1, <3>2
    <2>5. QED
      BY <1>4, <2>2, <2>3, <2>4
  <1>5. CASE Restart
    <2>1. \A j \in Jobs : pass[j] # None => pass[j].told \subseteq Keys
      BY DEF PassesShape, OwnPass, PassOf, Mine
    <2>2. torn' \subseteq Keys
      BY <1>1, <1>5, <2>1 DEF Restart
    <2>3. QED
      BY <1>1, <1>5, <2>2 DEF Restart
  <1>6. CASE DigestStart
    BY <1>1, <1>6 DEF DigestStart, Digest, Items
  <1>7. CASE DigestEnd
    BY <1>1, <1>7 DEF DigestEnd
  <1>8. CASE Tick
    <2>1. channel.cooling - 1 \in Nat /\ channel' = [channel EXCEPT !.cooling = channel.cooling - 1]
      BY <1>1, <1>8 DEF Tick
    <2>2. channel' \in [cooling : Nat, streak : Nat]
      BY <1>1, <2>1
    <2>3. QED
      BY <1>1, <1>8, <2>2 DEF Tick
  <1>9. CASE UNCHANGED vars
    BY <1>1, <1>9 DEF vars
  <1>10. QED
    BY <1>1, <1>2, <1>3, <1>4, <1>5, <1>6, <1>7, <1>8, <1>9 DEF Next, Findings

\* A digest loses no row without knowing.
LEMMA DigestNext ==
  ASSUME PassesSane, PassesShape, DigestHolds, [Next]_vars
  PROVE  DigestHolds'
  <1>1. CASE DigestStart
    BY <1>1 DEF DigestStart, DigestHolds, Items
  <1>2. CASE DigestEnd \/ Restart
    BY <1>2 DEF DigestEnd, Restart, DigestHolds
  <1>3. ASSUME NEW j \in Jobs, Commit(j)
        PROVE  DigestHolds'
    <2>1. SUFFICES ASSUME digest' # None, ~digest'.gone, NEW k \in digest'.items
                   PROVE  incidents'[k] # None
      BY DEF DigestHolds
    <2> DEFINE gone == digest.gone \/ \E m \in digest.items \intersect Mine(j) : pass[j].rows[m] = None
    <2>2. digest # None /\ digest' = [digest EXCEPT !.gone = gone]
      BY <1>3, <2>1 DEF Commit
    <2>3. digest \in Digest
      BY <2>2 DEF PassesShape
    <2>4. ~gone /\ k \in digest.items /\ k \in Keys
      BY <2>1, <2>2, <2>3 DEF Digest
    <2>5. CASE k \in Mine(j)
      <3>1. pass[j].rows[k] # None /\ pass[j].rows[k] \in Incident \union {None}
        BY <1>3, <2>4, <2>5 DEF Commit, PassesShape, OwnPass, PassOf
      <3>2. incidents'[k] = Kept(pass[j].rows[k], incidents[k])
        BY <1>3, <2>4, <2>5 DEF Commit
      <3>3. incidents[k] \in Incident \union {None}
        BY <2>4 DEF PassesShape
      <3>4. QED
        BY <3>1, <3>2, <3>3, KeptRow DEF PassesSane
    <2>6. CASE k \notin Mine(j)
      BY <1>3, <2>2, <2>4, <2>6 DEF Commit, DigestHolds
    <2>7. QED
      BY <2>5, <2>6
  <1>4. CASE digest' = digest /\ incidents' = incidents
    BY <1>4 DEF DigestHolds
  <1>5. QED
    <2>1. \A j, k, seen : Look(j, k, seen) => digest' = digest /\ incidents' = incidents
      BY DEF Look
    <2>2. QED
      BY <1>1, <1>2, <1>3, <1>4, <2>1
      DEF Next, Start, Accepted, Refused, CutOff, Delivered, Rollback, Tick, vars

\* At first nothing is open and nobody sends.
LEMMA ShapeInit == PassesSane /\ Init => PassesShape /\ DigestHolds
  <1> SUFFICES ASSUME PassesSane, Init PROVE PassesShape /\ DigestHolds
    OBVIOUS
  <1>1. \A j \in Jobs : pass[j] = None
    BY DEF Init
  <1>2. \A j \in Jobs : OwnPass(j)
    BY <1>1 DEF OwnPass
  <1>3. QED
    BY <1>2 DEF Init, PassesShape, DigestHolds

\* The shape of the state, in every state.
LEMMA ShapeAlways == ASSUME PassesSane PROVE Spec => [](PassesShape /\ DigestHolds)
  <1>1. Init => PassesShape /\ DigestHolds
    BY ShapeInit
  <1>2. PassesShape /\ DigestHolds /\ [Next]_vars => (PassesShape /\ DigestHolds)'
    BY PassNext, IncidentsNext, RestNext, DigestNext DEF PassesShape
  <1>3. QED
    BY <1>1, <1>2, PTL DEF Spec

-----------------------------------------------------------------------------
(* A channel that hangs.                                                   *)
\* At most all the passes send.
LEMMA Passes ==
  ASSUME PassesSane
  PROVE  /\ Cardinality(Jobs) \in Nat
         /\ \A S \in SUBSET Jobs :
               /\ Cardinality(S) \in Nat /\ Cardinality(S) <= Cardinality(Jobs)
               /\ \A j \in S : Cardinality(S \ {j}) = Cardinality(S) - 1
               /\ \A T \in SUBSET S : Cardinality(T) \in Nat /\ Cardinality(T) <= Cardinality(S)
  <1>1. IsFiniteSet(Jobs)
    BY DEF PassesSane
  <1>2. \A S \in SUBSET Jobs : IsFiniteSet(S)
    BY <1>1, FS_Subset
  <1>3. QED
    BY <1>1, <1>2, FS_Subset, FS_CardinalityType, FS_RemoveElement

\* Nobody has hung yet.
LEMMA WaitsNone ==
  ASSUME PassesSane, hung' = 0
  PROVE  Waits'
  <1>1. Sending' \subseteq Jobs
    BY DEF Sending
  <1>2. /\ Cardinality(Sending') \in Nat /\ Cardinality(Sending') <= Cardinality(Jobs)
        /\ Cardinality(Jobs) \in Nat
    BY <1>1, Passes
  <1>3. QED
    BY <1>2 DEF Waits

\* No pass starts to send.
LEMMA WaitsLess ==
  ASSUME PassesSane, Waits, Sending' \subseteq Sending,
         hung' = hung, channel'.cooling = 0 => channel.cooling = 0
  PROVE  Waits'
  <1>1. Sending \subseteq Jobs
    BY DEF Sending
  <1>2. /\ Cardinality(Sending) \in Nat /\ Cardinality(Sending') \in Nat
        /\ Cardinality(Sending') <= Cardinality(Sending) /\ Cardinality(Jobs) \in Nat
    BY <1>1, Passes
  <1>3. QED
    BY <1>2 DEF Waits

\* A look sends only on a channel that is not cooling.
LEMMA WaitsLook ==
  ASSUME PassesSane, PassesShape, Waits, NEW j \in Jobs, NEW k \in Keys, NEW seen \in Findings, Look(j, k, seen)
  PROVE  Waits'
  <1>1. /\ pass' = [i \in Jobs |-> IF i = j THEN pass'[j] ELSE pass[i]]
        /\ Cooling => pass'[j].sending = None
    <2>1. /\ pass' = [i \in Jobs |-> IF i = j THEN pass'[j] ELSE pass[i]]
          /\ pass'[j] \in PassOf(j) /\ pass'[j] # None
          /\ pass'[j].told = IF Quiet(k, pass[j].rows[k], seen) THEN pass[j].told
                             ELSE pass[j].told \union {k}
          /\ pass'[j].sending = IF Quiet(k, pass[j].rows[k], seen) \/ Cooling THEN None
                                ELSE <<k, EventOf(pass[j].rows[k], seen)>>
          /\ pass'[j].rows = [pass[j].rows EXCEPT ![k] = RowAfter(pass[j].rows[k], seen)]
      BY LookTells
    <2>2. QED
      BY <2>1
  <1>2. channel' = channel /\ hung' = hung
    BY DEF Look
  <1>3. CASE Cooling
    <2>1. Sending' \subseteq Sending
      BY <1>1, <1>3 DEF Sending
    <2>2. QED
      BY <1>2, <2>1, WaitsLess
  <1>4. CASE ~Cooling
    <2>1. hung = 0
      BY <1>4 DEF Cooling, Waits, PassesShape
    <2>2. QED
      BY <1>2, <2>1, WaitsNone
  <1>5. QED
    BY <1>3, <1>4

\* A pass that hung sends no more.
LEMMA WaitsDelivered ==
  ASSUME PassesSane, PassesShape, Waits, NEW j \in Jobs, NEW outcome \in {"ok", "no", "hang"},
         Delivered(j, outcome)
  PROVE  Waits'
  <1>1. /\ j \in Sending /\ Sending' = Sending \ {j}
    <2>1. pass[j] # None /\ pass[j].sending # None
      BY DEF Delivered
    <2>2. /\ pass' = [i \in Jobs |-> IF i = j THEN pass'[j] ELSE pass[i]]
          /\ pass'[j].sending = None
      BY DeliveredPass
    <2>3. \A i \in Jobs : i # j => pass'[i] = pass[i]
      BY <2>2
    <2>4. QED
      BY <2>1, <2>2, <2>3 DEF Sending
  <1>2. Sending \subseteq Jobs
    BY DEF Sending
  <1>3. /\ Cardinality(Sending) \in Nat /\ Cardinality(Sending') = Cardinality(Sending) - 1
        /\ Cardinality(Jobs) \in Nat
    BY <1>1, <1>2, Passes
  <1>4. /\ channel' = Streaked(outcome = "ok", outcome = "hang")
        /\ hung' = IF outcome = "hang" THEN hung + 1 ELSE hung
    BY DEF Delivered
  <1>5. (outcome = "ok") \in BOOLEAN /\ (outcome = "hang") \in BOOLEAN
    OBVIOUS
  <1>6. /\ channel'.cooling = 0 => channel.cooling = 0
        /\ outcome = "hang" => channel'.cooling # 0
    BY <1>4, <1>5, StreakedType
  <1>7. QED
    BY <1>3, <1>4, <1>6 DEF Waits

\* The other steps start no delivery.
LEMMA WaitsRest ==
  ASSUME PassesSane, PassesShape, Waits,
         \/ \E j \in Jobs : Start(j) \/ Commit(j) \/ Rollback(j)
         \/ DigestStart \/ DigestEnd \/ Tick \/ Restart \/ UNCHANGED vars
  PROVE  Waits'
  <1>1. ASSUME NEW j \in Jobs, Start(j) \/ Commit(j) \/ Rollback(j)
        PROVE  Waits'
    <2>1. channel' = channel /\ hung' = hung
      BY <1>1 DEF Start, Commit, Rollback
    <2>2. \A i \in Jobs : i # j => pass'[i] = pass[i]
      BY <1>1 DEF Start, Commit, Rollback, PassesShape
    <2>3. pass'[j] = None \/ pass'[j].sending = None
      BY <1>1 DEF Start, Commit, Rollback, PassesShape
    <2>4. Sending' \subseteq Sending
      BY <2>2, <2>3 DEF Sending
    <2>5. QED
      BY <2>1, <2>4, WaitsLess
  <1>2. CASE Restart
    <2>1. hung' = 0
      BY <1>2 DEF Restart
    <2>2. QED
      BY <2>1, WaitsNone
  <1>3. CASE Tick
    <2>1. Sending' \subseteq Sending
      BY <1>3 DEF Tick, Sending
    <2>2. channel'.cooling = channel.cooling - 1 /\ channel.cooling \in Nat
          /\ hung' = IF channel.cooling = 1 THEN 0 ELSE hung
      BY <1>3 DEF Tick, PassesShape
    <2>3. CASE channel.cooling = 1
      <3>1. hung' = 0
        BY <2>2, <2>3
      <3>2. QED
        BY <3>1, WaitsNone
    <2>4. CASE channel.cooling # 1
      <3>1. hung' = hung /\ channel'.cooling # 0
        BY <2>2, <2>4
      <3>2. QED
        BY <2>1, <3>1, WaitsLess
    <2>5. QED
      BY <2>3, <2>4
  <1>4. CASE DigestStart \/ DigestEnd \/ UNCHANGED vars
    <2>1. Sending' \subseteq Sending /\ channel' = channel /\ hung' = hung
      BY <1>4 DEF DigestStart, DigestEnd, vars, Sending
    <2>2. QED
      BY <2>1, WaitsLess
  <1>5. QED
    BY <1>1, <1>2, <1>3, <1>4

\* Between a channel's first hang and the end of its cool-down no pass waits
\* twice, however many incidents open, however many passes run and are undone.
THEOREM HangsStayFew == ASSUME PassesSane PROVE Spec => []HangsAreFew
  <1>1. Init => Waits
    <2> SUFFICES ASSUME Init PROVE Waits
      OBVIOUS
    <2>1. Sending = {} /\ hung = 0
      BY DEF Init, Sending
    <2>2. {} \in SUBSET Jobs
      OBVIOUS
    <2>3. Cardinality(Sending) \in Nat /\ Cardinality(Sending) <= Cardinality(Jobs)
      BY <2>1, <2>2, Passes
    <2>4. QED
      BY <2>1, <2>3 DEF Waits
  <1>2. PassesShape /\ DigestHolds /\ Waits /\ [Next]_vars => Waits'
    <2> SUFFICES ASSUME PassesShape, Waits, [Next]_vars PROVE Waits'
      OBVIOUS
    <2>1. ASSUME NEW j \in Jobs, Accepted(j) \/ Refused(j) \/ CutOff(j)
          PROVE  Waits'
      BY <2>1, WaitsDelivered DEF Accepted, Refused, CutOff
    <2>2. QED
      BY <2>1, WaitsLook, WaitsRest DEF Next, Findings
  <1>3. Waits => HangsAreFew
    <2> SUFFICES ASSUME Waits PROVE HangsAreFew
      OBVIOUS
    <2>1. Sending \in SUBSET Jobs
      BY DEF Sending
    <2>2. Cardinality(Sending) \in Nat /\ Cardinality(Jobs) \in Nat
      BY <2>1, Passes
    <2>3. QED
      BY <2>2 DEF Waits, HangsAreFew
  <1>4. QED
    BY <1>1, <1>2, <1>3, ShapeAlways, PTL DEF Spec

-----------------------------------------------------------------------------
(* What the group knows.                                                   *)
\* A key whose row, pass and last word stay is as known as before.
LEMMA KnownStays ==
  ASSUME NEW k \in Keys, Known(k), torn \subseteq torn',
         incidents'[k] = incidents[k], pass'[Owner[k]] = pass[Owner[k]], said'[k] = said[k]
  PROVE  Known(k)'
  BY DEF Known, TableIsRight, PassIsRight, Heard

\* After a look: the gates hold back what needs no word, and what they let
\* through is on its way or was swallowed by the cool-down.
LEMMA KnownLook ==
  ASSUME PassesSane, PassesShape, NEW j \in Jobs, NEW m \in Keys, NEW seen \in Findings, Look(j, m, seen),
         NEW k \in Keys, Known(k)
  PROVE  Known(k)'
  <1> DEFINE row == pass[j].rows[m]
             quiet == Quiet(m, row, seen)
  <1>1. /\ pass[j] # None /\ pass[j].sending = None /\ m \in Mine(j)
        /\ row \in Incident \union {None}
    BY LookPass
  <1>2. /\ pass' = [i \in Jobs |-> IF i = j THEN pass'[j] ELSE pass[i]]
        /\ pass'[j] # None
        /\ pass'[j].told = IF quiet THEN pass[j].told ELSE pass[j].told \union {m}
        /\ pass'[j].sending = IF quiet \/ Cooling THEN None ELSE <<m, EventOf(row, seen)>>
        /\ pass'[j].rows = [pass[j].rows EXCEPT ![m] = RowAfter(row, seen)]
    BY LookTells
  <1>3. \A n \in Mine(j) : pass'[j].rows[n] = IF n = m THEN RowAfter(row, seen) ELSE pass[j].rows[n]
    <2>1. pass[j].rows \in [Mine(j) -> Incident \union {None}]
      BY LookPass DEF PassOf
    <2> HIDE DEF quiet, row
    <2>2. QED
      BY <1>2, <2>1
  <1>4. /\ pass'[j].told = IF quiet THEN pass[j].told ELSE pass[j].told \union {m}
        /\ pass'[j].sending = IF quiet \/ Cooling THEN None ELSE <<m, EventOf(row, seen)>>
    BY <1>2
  <1>5. \A n \in Keys : said'[n] = IF n = m /\ ~quiet /\ Cooling THEN EventOf(row, seen) ELSE said[n]
    <2>1. said' = IF ~quiet /\ Cooling THEN [said EXCEPT ![m] = EventOf(row, seen)] ELSE said
      BY DEF Look, Quiet
    <2> HIDE DEF quiet, row
    <2>2. QED
      BY <2>1 DEF PassesShape
  <1>6. ~quiet => EventOf(row, seen) # None /\ EventOf(row, seen) \in Events
    BY DEF quiet, Quiet, EventOf, Events
  <1>7. incidents' = incidents /\ torn' = torn
    BY DEF Look
  <1> HIDE DEF quiet, row
  <1>8. CASE Owner[k] # j
    <2>1. pass'[Owner[k]] = pass[Owner[k]] /\ said'[k] = said[k]
      BY <1>1, <1>2, <1>5, <1>8 DEF Mine, PassesSane
    <2>2. QED
      BY <1>7, <2>1, KnownStays
  <1>9. CASE Owner[k] = j /\ k # m
    <2>1. pass'[j].rows[k] = pass[j].rows[k] /\ said'[k] = said[k]
      BY <1>3, <1>5, <1>9 DEF Mine
    <2>2. k \in pass'[j].told <=> k \in pass[j].told
      BY <1>4, <1>9
    <2>3. pass'[j].sending = None \/ pass'[j].sending[1] # k
      BY <1>4, <1>9
    <2>4. QED
      BY <1>1, <1>2, <1>7, <1>9, <2>1, <2>2, <2>3 DEF Known, TableIsRight, PassIsRight, Heard
  <1>10. CASE k = m
    <2>1. Owner[k] = j /\ pass'[j].rows[k] = RowAfter(row, seen)
      BY <1>1, <1>3, <1>10 DEF Mine
    <2>2. SUFFICES ASSUME k \notin torn, Type[k] \in Sent
                   PROVE  TableIsRight(k)' /\ PassIsRight(k)'
      BY <1>7 DEF Known
    <2>3. Matches(k, row, said[k])
      BY <1>1, <1>10, <2>1, <2>2 DEF Known, PassIsRight, Heard, row
    <2>4. CASE quiet
      <3>1. Matches(k, RowAfter(row, seen), said[k])
        BY <1>1, <1>10, <2>2, <2>3, <2>4, GatedMatches DEF quiet
      <3>2. said'[k] = said[k] /\ pass'[j].told = pass[j].told /\ pass'[j].sending = None
        BY <1>4, <1>5, <2>4
      <3>3. PassIsRight(k)'
        BY <2>1, <3>1, <3>2 DEF PassIsRight, Heard
      <3>4. TableIsRight(k)'
        BY <1>1, <1>2, <1>7, <2>1, <2>2, <3>2 DEF Known, TableIsRight
      <3>5. QED
        BY <3>3, <3>4
    <2>5. CASE ~quiet
      <3>1. Matches(k, RowAfter(row, seen), EventOf(row, seen))
        BY <1>1, <1>6, <1>10, <2>5, SaidMatches
      <3>2. TableIsRight(k)'
        BY <1>2, <1>4, <1>10, <2>1, <2>5 DEF TableIsRight
      <3>3. CASE Cooling
        <4>1. said'[k] = EventOf(row, seen) /\ pass'[j].sending = None
          BY <1>4, <1>5, <1>10, <2>5, <3>3
        <4>2. PassIsRight(k)'
          BY <2>1, <3>1, <4>1 DEF PassIsRight, Heard
        <4>3. QED
          BY <3>2, <4>2
      <3>4. CASE ~Cooling
        <4>1. pass'[j].sending = <<k, EventOf(row, seen)>>
          BY <1>4, <1>10, <2>5, <3>4
        <4>2. pass'[j].sending \in Message
          BY <1>6, <2>5, <4>1 DEF Message
        <4>3. pass'[j].sending # None
          BY <4>2 DEF PassesSane
        <4>4. PassIsRight(k)'
          BY <2>1, <3>1, <4>1, <4>3 DEF PassIsRight, Heard
        <4>5. QED
          BY <3>2, <4>4
      <3>5. QED
        BY <3>3, <3>4
    <2>6. QED
      BY <2>4, <2>5
  <1>11. QED
    BY <1>8, <1>9, <1>10

\* After a delivery: the word that was on its way is the last one.
LEMMA KnownDelivered ==
  ASSUME PassesSane, PassesShape, NEW j \in Jobs, NEW outcome, Delivered(j, outcome), NEW k \in Keys, Known(k)
  PROVE  Known(k)'
  <1> DEFINE m == pass[j].sending[1]
  <1>1. /\ pass[j] \in PassOf(j) /\ pass[j] # None /\ pass[j].sending \in Message
        /\ m \in pass[j].told
    BY DeliveredPass
  <1>2. pass' = [i \in Jobs |-> IF i = j THEN pass'[j] ELSE pass[i]]
    BY DeliveredPass
  <1>3. pass'[j] # None /\ pass'[j].sending = None
        /\ pass'[j].rows = pass[j].rows /\ pass'[j].told = pass[j].told
    BY DeliveredPass
  <1>4. said' = [said EXCEPT ![m] = pass[j].sending[2]] /\ incidents' = incidents /\ torn' = torn
    BY DEF Delivered
  <1>5. m \in Mine(j)
    BY <1>1 DEF PassOf
  <1>6. pass[j].sending # None
    BY <1>1 DEF PassesSane
  <1> HIDE DEF m
  <1>7. CASE Owner[k] # j
    <2>1. pass'[Owner[k]] = pass[Owner[k]]
      BY <1>2, <1>7 DEF PassesSane
    <2>2. said'[k] = said[k]
      BY <1>4, <1>5, <1>7 DEF PassesShape, Mine
    <2>3. QED
      BY <1>4, <2>1, <2>2, KnownStays
  <1>8. CASE Owner[k] = j
    <2>1. said'[k] = Heard(k)
      BY <1>1, <1>4, <1>6, <1>8 DEF Heard, PassesShape, m
    <2>2. k \notin pass[j].told => said'[k] = said[k]
      BY <1>1, <1>4 DEF PassesShape
    <2>3. QED
      BY <1>1, <1>3, <1>4, <1>8, <2>1, <2>2 DEF Known, TableIsRight, PassIsRight, Heard
  <1>9. QED
    BY <1>7, <1>8

\* After a commit the table holds what the pass had; after a pass that was
\* undone it holds what it held, of the keys nobody was told of.
LEMMA KnownEnd ==
  ASSUME PassesSane, PassesShape, NEW j \in Jobs, Commit(j) \/ Rollback(j), NEW k \in Keys, Known(k)
  PROVE  Known(k)'
  <1>1. pass[j] # None /\ pass[j].sending = None /\ said' = said
        /\ pass' = [i \in Jobs |-> IF i = j THEN None ELSE pass[i]]
    BY DEF Commit, Rollback, PassesShape
  <1>2. pass[j] \in PassOf(j)
    BY <1>1 DEF PassesShape, OwnPass
  <1>3. CASE Owner[k] # j
    <2>1. incidents'[k] = incidents[k] /\ torn \subseteq torn'
      BY <1>3 DEF Commit, Rollback, Mine
    <2>2. pass'[Owner[k]] = pass[Owner[k]]
      BY <1>1, <1>3 DEF PassesSane
    <2>3. QED
      BY <1>1, <2>1, <2>2, KnownStays
  <1>4. CASE Owner[k] = j /\ Commit(j)
    <2>1. k \in Mine(j) /\ incidents'[k] = Kept(pass[j].rows[k], incidents[k]) /\ torn' = torn
      BY <1>4 DEF Commit, Mine
    <2>2. pass[j].rows[k] \in Incident \union {None} /\ incidents[k] \in Incident \union {None}
      BY <1>2, <2>1 DEF PassesShape, PassOf
    <2>3. SUFFICES ASSUME k \notin torn, Type[k] \in Sent
                   PROVE  Matches(k, incidents'[k], said[k])
      BY <1>1, <1>4, <2>1 DEF Known, TableIsRight, PassIsRight
    <2>4. Matches(k, pass[j].rows[k], said[k])
      BY <1>1, <1>4, <2>3 DEF Known, PassIsRight, Heard
    <2>5. /\ Kept(pass[j].rows[k], incidents[k]) = None <=> pass[j].rows[k] = None
          /\ pass[j].rows[k] # None
               => Kept(pass[j].rows[k], incidents[k]).opened = pass[j].rows[k].opened
      BY <2>2, KeptRow DEF PassesSane
    <2>6. QED
      BY <2>1, <2>4, <2>5 DEF Matches
  <1>5. CASE Owner[k] = j /\ Rollback(j)
    <2>1. incidents' = incidents /\ torn' = torn \union pass[j].told
      BY <1>5 DEF Rollback
    <2>2. QED
      BY <1>1, <1>5, <2>1 DEF Known, TableIsRight, PassIsRight
  <1>6. QED
    BY <1>3, <1>4, <1>5

\* The other steps tell nobody and write no row but the digest's marks.
LEMMA KnownRest ==
  ASSUME PassesSane, PassesShape, DigestHolds, NEW k \in Keys, Known(k),
         \/ \E j \in Jobs : Start(j)
         \/ DigestStart \/ DigestEnd \/ Tick \/ Restart \/ UNCHANGED vars
  PROVE  Known(k)'
  <1>1. ASSUME NEW j \in Jobs, Start(j)
        PROVE  Known(k)'
    <2> DEFINE next == [left |-> Mine(j), rows |-> [m \in Mine(j) |-> incidents[m]],
                        told |-> {}, sending |-> None]
    <2>1. /\ pass[j] = None /\ pass' = [i \in Jobs |-> IF i = j THEN next ELSE pass[i]]
          /\ incidents' = incidents /\ said' = said /\ torn' = torn
      BY <1>1 DEF Start, PassesShape
    <2>2. next.told = {} /\ next.sending = None /\ \A m \in Mine(j) : next.rows[m] = incidents[m]
      OBVIOUS
    <2> HIDE DEF next
    <2>3. CASE Owner[k] # j
      <3>1. pass'[Owner[k]] = pass[Owner[k]]
        BY <2>1, <2>3 DEF PassesSane
      <3>2. QED
        BY <2>1, <3>1, KnownStays
    <2>4. CASE Owner[k] = j
      <3>1. pass'[j] = next /\ k \in Mine(j)
        BY <2>1, <2>4 DEF Mine
      <3>2. QED
        BY <2>1, <2>2, <2>4, <3>1 DEF Known, TableIsRight, PassIsRight, Heard
    <2>5. QED
      BY <2>3, <2>4
  <1>2. CASE DigestEnd
    <2>1. /\ incidents'[k] = None <=> incidents[k] = None
          /\ incidents[k] # None => incidents'[k].opened = incidents[k].opened
      BY <1>2, DigestEndRows
    <2>2. pass' = pass /\ said' = said /\ torn' = torn
      BY <1>2 DEF DigestEnd
    <2>3. QED
      BY <2>1, <2>2 DEF Known, TableIsRight, PassIsRight, Heard, Matches
  <1>3. CASE Restart
    <2>1. incidents' = incidents /\ said' = said /\ pass'[Owner[k]] = None
          /\ torn' = torn \union UNION {pass[j].told : j \in {i \in Jobs : pass[i] # None}}
      BY <1>3 DEF Restart, PassesSane
    <2>2. pass[Owner[k]] # None => pass[Owner[k]].told \subseteq torn'
      BY <2>1 DEF PassesSane
    <2>3. QED
      BY <2>1, <2>2 DEF Known, TableIsRight, PassIsRight
  <1>4. CASE DigestStart \/ Tick \/ UNCHANGED vars
    <2>1. UNCHANGED <<incidents, pass, said, torn>>
      BY <1>4 DEF DigestStart, Tick, vars
    <2>2. QED
      BY <2>1, KnownStays
  <1>5. QED
    BY <1>1, <1>2, <1>3, <1>4

\* A warning that the digest may take is in the next one.
LEMMA KnownAgrees ==
  ASSUME PassesSane, NoneWidened, PassesShape, NEW k \in Keys, Known(k),
         k \notin torn, pass[Owner[k]] = None, Type[k] \in Sent
  PROVE  Agreed(k)
  <1>1. Matches(k, incidents[k], said[k])
    BY DEF Known, TableIsRight
  <1>2. CASE incidents[k] = None
    BY <1>1, <1>2 DEF Agreed, Told, Matches
  <1>3. CASE incidents[k] # None /\ Deferred(Policy(k), incidents[k].opened, "opened")
    <2>1. incidents[k].severity \in Severe /\ incidents[k].digested \in BOOLEAN
      BY <1>3 DEF PassesShape, Incident
    <2>2. Digestible(Type[k], Overrides[k])
      BY <1>3 DEF Deferred, Digestible, NoneWidened, Policy
    <2>3. k \in Items \/ incidents[k].digested \/ incidents[k].severity = "critical"
      BY <1>3, <2>1, <2>2 DEF Items, Collected, Severe
    <2>4. QED
      BY <1>3, <2>3 DEF Agreed
  <1>4. CASE incidents[k] # None /\ ~Deferred(Policy(k), incidents[k].opened, "opened")
    BY <1>1, <1>4 DEF Agreed, Told, Matches
  <1>5. QED
    BY <1>2, <1>3, <1>4

\* Whatever the channel loses and the passes do side by side, between passes
\* the last word about a key is what the table holds or the digest's, unless
\* a pass that had told of the key was undone.
THEOREM NobodyStaysInTheDark == ASSUME PassesSane, NoneWidened PROVE Spec => []NobodyInTheDark
  <1>1. Init => \A k \in Keys : Known(k)
    BY DEF Init, Known, TableIsRight, PassIsRight, Matches, PassesSane, Events
  <1>2. PassesShape /\ DigestHolds /\ (\A k \in Keys : Known(k)) /\ [Next]_vars => (\A k \in Keys : Known(k))'
    <2> SUFFICES ASSUME PassesShape, DigestHolds, \A k \in Keys : Known(k), [Next]_vars, NEW m \in Keys
                 PROVE  Known(m)'
      OBVIOUS
    <2>1. Known(m)
      OBVIOUS
    <2>2. ASSUME NEW j \in Jobs, Accepted(j) \/ Refused(j) \/ CutOff(j)
          PROVE  Known(m)'
      BY <2>1, <2>2, KnownDelivered DEF Accepted, Refused, CutOff
    <2>3. ASSUME NEW j \in Jobs, NEW k \in Keys, NEW seen \in Findings, Look(j, k, seen)
          PROVE  Known(m)'
      BY <2>1, <2>3, KnownLook
    <2>4. ASSUME NEW j \in Jobs, Commit(j) \/ Rollback(j)
          PROVE  Known(m)'
      BY <2>1, <2>4, KnownEnd
    <2>5. ASSUME \/ \E j \in Jobs : Start(j)
                 \/ DigestStart \/ DigestEnd \/ Tick \/ Restart \/ UNCHANGED vars
          PROVE  Known(m)'
      BY <2>1, <2>5, KnownRest
    <2>6. QED
      BY <2>2, <2>3, <2>4, <2>5 DEF Next, Findings
  <1>3. PassesShape /\ (\A k \in Keys : Known(k)) => NobodyInTheDark
    BY KnownAgrees DEF NobodyInTheDark
  <1>4. QED
    BY <1>1, <1>2, <1>3, ShapeAlways, PTL DEF Spec

-----------------------------------------------------------------------------
(* What TLAPS proves about Consumption, for any life of the device, any    *)
(* length of the windows, of the retention and of the catch-up, any size   *)
(* of the batches, and any number of passes that fail.  First, sums over   *)
(* finite sets: no theorem of the library can do an induction over them    *)
(* here, so each lemma looks at a least set that would be a counterexample. *)
Pick(S) == CHOOSE x \in S : TRUE

\* What the recursion of SumFunctionOnSet defines on the subsets of S.
Sums(f, S, g) ==
    g = [U \in SUBSET S |-> IF U = {} THEN 0 ELSE f[Pick(U)] + g[U \ {Pick(U)}]]

LEMMA SumIs ==
  ASSUME NEW f, NEW S
  PROVE  SumFunctionOnSet(f, S) = (CHOOSE g : Sums(f, S, g))[S]
  BY DEF SumFunctionOnSet, FoldFunctionOnSet, MapThenFoldSet, Sums, Pick

\* The least of the sets that are not as they should be.
LEMMA LeastSet ==
  ASSUME NEW S, IsFiniteSet(S), NEW T, T \subseteq SUBSET S, T # {}
  PROVE  \E U \in T : \A V \in T : ~ (V \subseteq U /\ V # U)
  <1>1. IsWellFoundedOn(StrictSubsetOrdering(S), SUBSET S)
    BY FS_StrictSubsetOrderingWellFounded, FS_FiniteSubsetsOfFinite
  <1>2. PICK U \in T : \A V \in T : ~ (<<V, U>> \in StrictSubsetOrdering(S))
    BY <1>1, WFMin, Zenon
  <1>3. QED
    BY <1>2 DEF StrictSubsetOrdering

LEMMA PickIn == ASSUME NEW U, U # {} PROVE Pick(U) \in U
  BY DEF Pick

\* Two solutions of the recursion agree wherever both are defined.
LEMMA SumsAgree ==
  ASSUME NEW f, NEW S, NEW R, IsFiniteSet(S), NEW g, NEW h, Sums(f, S, g), Sums(f, R, h),
         NEW U \in SUBSET S, U \in SUBSET R
  PROVE  g[U] = h[U]
  <1> DEFINE Wrong == {V \in SUBSET U : g[V] # h[V]}
  <1>1. SUFFICES ASSUME Wrong # {} PROVE FALSE
    OBVIOUS
  <1>2. IsFiniteSet(U)
    BY FS_Subset
  <1>3. PICK V \in Wrong : \A W \in Wrong : ~ (W \subseteq V /\ W # V)
    <2>1. Wrong \subseteq SUBSET U
      OBVIOUS
    <2> HIDE DEF Wrong
    <2>2. QED
      BY <1>1, <1>2, <2>1, LeastSet
  <1>4. V \in SUBSET S /\ V \in SUBSET R /\ V # {}
    BY DEF Sums
  <1>5. V \ {Pick(V)} \in SUBSET U /\ V \ {Pick(V)} # V
    BY <1>4, PickIn
  <1>6. g[V \ {Pick(V)}] = h[V \ {Pick(V)}]
    BY <1>3, <1>5
  <1>7. g[V] = h[V]
    BY <1>4, <1>6 DEF Sums
  <1>8. QED
    BY <1>7

\* The recursion has a solution on every finite set.
LEMMA SumsExist ==
  ASSUME NEW f, NEW S, IsFiniteSet(S)
  PROVE  \E g : Sums(f, S, g)
  <1> DEFINE Wrong == {V \in SUBSET S : ~ \E g : Sums(f, V, g)}
  <1>1. SUFFICES ASSUME Wrong # {} PROVE FALSE
    OBVIOUS
  <1>2. PICK U \in Wrong : \A V \in Wrong : ~ (V \subseteq U /\ V # U)
    <2>1. Wrong \subseteq SUBSET S
      OBVIOUS
    <2> HIDE DEF Wrong
    <2>2. QED
      BY <1>1, <2>1, LeastSet
  <1> DEFINE sol(V) == CHOOSE g : Sums(f, V, g)
             value(V) == IF V = {} THEN 0 ELSE f[Pick(V)] + sol(V \ {Pick(V)})[V \ {Pick(V)}]
             g == [V \in SUBSET U |-> value(V)]
  <1>3. ASSUME NEW V \in SUBSET U, V # {}
        PROVE  /\ V \ {Pick(V)} \in SUBSET U
               /\ Sums(f, V \ {Pick(V)}, sol(V \ {Pick(V)}))
    <2>1. V \ {Pick(V)} \in SUBSET S /\ V \ {Pick(V)} \subseteq U /\ V \ {Pick(V)} # U
      BY <1>3, PickIn
    <2>2. \E k : Sums(f, V \ {Pick(V)}, k)
      BY <1>2, <2>1
    <2>3. QED
      BY <2>1, <2>2
  <1>4. ASSUME NEW V \in SUBSET U, V # {}
        PROVE  g[V \ {Pick(V)}] = sol(V \ {Pick(V)})[V \ {Pick(V)}]
    <2> DEFINE W == V \ {Pick(V)}
    <2>1. W \in SUBSET U /\ Sums(f, W, sol(W))
      BY <1>3, <1>4
    <2>2. CASE W = {}
      BY <2>1, <2>2 DEF Sums
    <2>3. CASE W # {}
      <3>1. W \ {Pick(W)} \in SUBSET U /\ Sums(f, W \ {Pick(W)}, sol(W \ {Pick(W)}))
        BY <1>3, <2>1, <2>3
      <3>2. IsFiniteSet(W)
        BY <2>1, FS_Subset
      <3>3. sol(W)[W \ {Pick(W)}] = sol(W \ {Pick(W)})[W \ {Pick(W)}]
        <4> HIDE DEF sol, W
        <4>1. W \ {Pick(W)} \in SUBSET W
          OBVIOUS
        <4>2. QED
          BY <2>1, <3>1, <3>2, <4>1, SumsAgree
      <3>4. sol(W)[W] = f[Pick(W)] + sol(W)[W \ {Pick(W)}]
        <4> HIDE DEF sol, W
        <4> QED BY <2>1, <2>3 DEF Sums
      <3>5. QED
        BY <2>1, <2>3, <3>3, <3>4
    <2>4. QED
      BY <2>2, <2>3
  <1>5. Sums(f, U, g)
    <2> SUFFICES g = [V \in SUBSET U |-> IF V = {} THEN 0 ELSE f[Pick(V)] + g[V \ {Pick(V)}]]
      BY DEF Sums
    <2>1. \A V \in SUBSET U : value(V) = IF V = {} THEN 0 ELSE f[Pick(V)] + g[V \ {Pick(V)}]
      <3>1. TAKE V \in SUBSET U
      <3>2. CASE V = {}
        BY <3>2
      <3>3. CASE V # {}
        <4>1. g[V \ {Pick(V)}] = sol(V \ {Pick(V)})[V \ {Pick(V)}]
          BY <1>4, <3>3
        <4> HIDE DEF g, sol
        <4>2. QED
          BY <3>3, <4>1
      <3>4. QED
        BY <3>2, <3>3
    <2> HIDE DEF value
    <2>2. QED
      BY <2>1
  <1>6. QED
    BY <1>2, <1>5

\* A sum over nothing is zero, and over anything else its first term and the rest.
LEMMA SumEmpty == ASSUME NEW f PROVE SumFunctionOnSet(f, {}) = 0
  <1>1. \E g : Sums(f, {}, g)
    BY SumsExist, FS_EmptySet
  <1>2. Sums(f, {}, CHOOSE g : Sums(f, {}, g))
    BY <1>1
  <1>3. QED
    BY <1>2, SumIs DEF Sums

LEMMA SumFirst ==
  ASSUME NEW f, NEW S, IsFiniteSet(S), S # {}
  PROVE  SumFunctionOnSet(f, S) = f[Pick(S)] + SumFunctionOnSet(f, S \ {Pick(S)})
  <1> DEFINE R == S \ {Pick(S)}
             g == CHOOSE k : Sums(f, S, k)
             h == CHOOSE k : Sums(f, R, k)
  <1>1. IsFiniteSet(R)
    BY FS_Subset
  <1>2. Sums(f, S, g) /\ Sums(f, R, h)
    BY <1>1, SumsExist
  <1>3. SumFunctionOnSet(f, S) = g[S] /\ SumFunctionOnSet(f, R) = h[R]
    BY SumIs
  <1> HIDE DEF g, h
  <1>4. g[R] = h[R]
    <2>1. R \in SUBSET S /\ R \in SUBSET R
      OBVIOUS
    <2> HIDE DEF R
    <2>2. QED
      BY <1>2, <2>1, SumsAgree
  <1>5. g[S] = f[Pick(S)] + g[R]
    BY <1>2 DEF Sums
  <1>6. QED
    BY <1>3, <1>4, <1>5

\* A sum of naturals is one, and grows with its terms.
LEMMA SumGrows ==
  ASSUME NEW f, NEW h, NEW S, IsFiniteSet(S),
         \A x \in S : f[x] \in Nat /\ h[x] \in Nat /\ f[x] <= h[x]
  PROVE  /\ SumFunctionOnSet(f, S) \in Nat
         /\ SumFunctionOnSet(h, S) \in Nat
         /\ SumFunctionOnSet(f, S) <= SumFunctionOnSet(h, S)
  <1> DEFINE good(V) == /\ SumFunctionOnSet(f, V) \in Nat
                        /\ SumFunctionOnSet(h, V) \in Nat
                        /\ SumFunctionOnSet(f, V) <= SumFunctionOnSet(h, V)
             Wrong == {V \in SUBSET S : ~good(V)}
  <1>1. SUFFICES ASSUME Wrong # {} PROVE FALSE
    OBVIOUS
  <1>2. PICK V \in Wrong : \A W \in Wrong : ~ (W \subseteq V /\ W # V)
    <2>1. Wrong \subseteq SUBSET S
      OBVIOUS
    <2> HIDE DEF Wrong
    <2>2. QED
      BY <1>1, <2>1, LeastSet
  <1>3. V # {}
    <2>1. good({})
      BY SumEmpty
    <2>2. QED
      BY <2>1
  <1>4. Pick(V) \in S /\ V \ {Pick(V)} \in SUBSET S /\ V \ {Pick(V)} # V
    BY <1>3, PickIn
  <1>5. good(V \ {Pick(V)})
    <2> HIDE DEF good
    <2>1. QED
      BY <1>2, <1>4
  <1>6. /\ SumFunctionOnSet(f, V) = f[Pick(V)] + SumFunctionOnSet(f, V \ {Pick(V)})
        /\ SumFunctionOnSet(h, V) = h[Pick(V)] + SumFunctionOnSet(h, V \ {Pick(V)})
    BY <1>3, SumFirst, FS_Subset
  <1>7. good(V)
    BY <1>4, <1>5, <1>6
  <1>8. QED
    BY <1>7
EndOf(d) == Midnight(d + 1)

\* Midnights are in the order of the days, and a slot is between two of them.
LEMMA MidnightGrows ==
  ASSUME NEW d \in Int, NEW e \in Int
  PROVE  /\ Midnight(d) \in Int
         /\ d <= e => Midnight(d) <= Midnight(e)
         /\ Midnight(d + 1) = Midnight(d) + SlotsPerDay
  <1>1. SlotsPerDay \in Nat
    BY ConsumptionAssumption
  <1>2. Midnight(d) \in Int /\ Midnight(d + 1) = Midnight(d) + SlotsPerDay
    BY <1>1 DEF Midnight
  <1>3. ASSUME d <= e PROVE Midnight(d) <= Midnight(e)
    <2>1. e - d \in Nat
      BY <1>3
    <2>2. e * SlotsPerDay = d * SlotsPerDay + (e - d) * SlotsPerDay
      BY <1>1, <2>1
    <2>3. (e - d) * SlotsPerDay \in Nat
      BY <1>1, <2>1
    <2>4. QED
      BY <1>1, <2>2, <2>3 DEF Midnight
  <1>4. QED
    BY <1>2, <1>3

LEMMA DayOfSlot ==
  ASSUME NEW s \in Int
  PROVE  Day(s) \in Int /\ Midnight(Day(s)) <= s /\ s < Midnight(Day(s) + 1)
  BY ConsumptionAssumption DEF Day, Midnight

LEMMA DayIsBefore ==
  ASSUME NEW s \in Int, NEW d \in Int
  PROVE  /\ s < Midnight(d) <=> Day(s) < d
         /\ Midnight(d) <= s <=> d <= Day(s)
  <1>1. Day(s) \in Int /\ Midnight(Day(s)) <= s /\ s < Midnight(Day(s) + 1) /\ Midnight(d) \in Int
    BY DayOfSlot, MidnightGrows
  <1>2. ASSUME Day(s) < d PROVE s < Midnight(d)
    <2>1. Midnight(Day(s) + 1) <= Midnight(d)
      BY <1>1, <1>2, MidnightGrows
    <2>2. Midnight(Day(s) + 1) \in Int
      BY <1>1, MidnightGrows
    <2>3. QED
      BY <1>1, <2>1, <2>2
  <1>3. ASSUME d <= Day(s) PROVE Midnight(d) <= s
    <2>1. Midnight(d) <= Midnight(Day(s)) /\ Midnight(Day(s)) \in Int
      BY <1>1, <1>3, MidnightGrows
    <2>2. QED
      BY <1>1, <2>1
  <1>4. QED
    BY <1>1, <1>2, <1>3

\* A bounded set of integers has a least and a greatest element.
LEMMA GreatestOf ==
  ASSUME NEW S, S # {}, NEW lo \in Int, NEW hi \in Int, S \subseteq lo .. hi
  PROVE  Max(S) \in S /\ \A x \in S : x <= Max(S)
  <1> DEFINE T == {hi - x : x \in S}
  <1>1. \A x \in S : x \in Int /\ hi - x \in Nat
    OBVIOUS
  <1>2. T # {} /\ T \subseteq Nat
    BY <1>1
  <1>3. PICK m \in T : \A y \in T : ~ (<<y, m>> \in OpToRel(<, Nat))
    <2> HIDE DEF T
    <2>1. QED
      BY <1>2, NatLessThanWellFounded, WFMin
  <1>4. \A y \in T : m <= y
    <2>1. \A y \in T : y \in Nat /\ m \in Nat /\ ~ (y < m)
      BY <1>2, <1>3 DEF OpToRel
    <2>2. QED
      BY <2>1
  <1>5. PICK x \in S : m = hi - x
    OBVIOUS
  <1>6. \A y \in S : y <= x
    <2>1. ASSUME NEW y \in S PROVE y <= x
      <3>1. hi - y \in T
        OBVIOUS
      <3>2. hi - x <= hi - y
        BY <1>4, <1>5, <3>1
      <3>3. QED
        BY <1>1, <3>2
    <2>2. QED
      BY <2>1
  <1>7. QED
    BY <1>6 DEF Max

LEMMA LeastOf ==
  ASSUME NEW S, S # {}, NEW lo \in Int, NEW hi \in Int, S \subseteq lo .. hi
  PROVE  Min(S) \in S /\ \A x \in S : Min(S) <= x
  <1> DEFINE T == {x - lo : x \in S}
  <1>1. \A x \in S : x \in Int /\ x - lo \in Nat
    OBVIOUS
  <1>2. T # {} /\ T \subseteq Nat
    BY <1>1
  <1>3. PICK m \in T : \A y \in T : ~ (<<y, m>> \in OpToRel(<, Nat))
    <2> HIDE DEF T
    <2>1. QED
      BY <1>2, NatLessThanWellFounded, WFMin
  <1>4. \A y \in T : m <= y
    <2>1. \A y \in T : y \in Nat /\ m \in Nat /\ ~ (y < m)
      BY <1>2, <1>3 DEF OpToRel
    <2>2. QED
      BY <2>1
  <1>5. PICK x \in S : m = x - lo
    OBVIOUS
  <1>6. \A y \in S : x <= y
    <2>1. ASSUME NEW y \in S PROVE x <= y
      <3>1. y - lo \in T
        OBVIOUS
      <3>2. x - lo <= y - lo
        BY <1>4, <1>5, <3>1
      <3>3. QED
        BY <1>1, <3>2
    <2>2. QED
      BY <2>1
  <1>7. QED
    BY <1>6 DEF Min

-----------------------------------------------------------------------------
(* The invariant.                                                          *)
ConsumptionShape ==
    /\ life \in Lives /\ now \in Slots
    /\ \A r \in metrics : r.at \in Sampled
    /\ daily = [d \in DOMAIN daily |-> daily[d]] /\ DOMAIN daily \subseteq 0 .. Today - 1
    /\ enabled \in BOOLEAN
    /\ rollup \subseteq 0 .. Today - 1 /\ backfill \subseteq 0 .. Today - 1
    /\ purge \subseteq Int

\* Until the retention is on, every sample is still there.
NothingPurgedYet == ~enabled => Sampled \subseteq Raw /\ purge = {}

\* From then on the summary has no hole up to its last day, and every later
\* sample is there; a pass of the nightly job goes on from that day.
NoHoleBehind ==
    enabled =>
        /\ backfill = {} /\ DOMAIN daily # {}
        /\ \A cutoff \in purge : cutoff <= EndOf(LastRolledDay)
        /\ \A s \in Sampled :
              IF s < EndOf(LastRolledDay) THEN Day(s) \in DOMAIN daily ELSE s \in Raw
        /\ \A d \in rollup :
              /\ LastRolledDay < d
              /\ \A e \in LastRolledDay + 1 .. d : e \in rollup \/ ~HasRows(Sampled, e)

\* A day of the summary stands for what its samples gained, at least.
TotalsComplete ==
    \A d \in DOMAIN daily : daily[d] >= Live(Sampled, Midnight(d), EndOf(d))

Books == ConsumptionShape /\ NothingPurgedYet /\ NoHoleBehind /\ TotalsComplete

-----------------------------------------------------------------------------
(* What samples add up to.                                                 *)
LEMMA ValueIsInt ==
  ASSUME life \in Lives, NEW s \in Slots
  PROVE  Value(s) \in Int
  <1> DEFINE before == {0} \union {r \in life.resets : r <= s}
  <1>1. life.resets \subseteq Slots
    BY LivesAssumption
  <1>2. before \subseteq 0 .. (LastDay + 1) * SlotsPerDay
    <2>1. (LastDay + 1) * SlotsPerDay \in Nat
      BY ConsumptionAssumption
    <2>2. QED
      BY <1>1, <2>1 DEF Slots
  <1>3. Max(before) \in before
    <2> DEFINE last == (LastDay + 1) * SlotsPerDay
    <2>1. last \in Int /\ 0 \in Int
      BY ConsumptionAssumption
    <2>2. before # {} /\ before \subseteq 0 .. last
      BY <1>2
    <2> HIDE DEF before, last
    <2>3. QED
      BY <2>1, <2>2, GreatestOf
  <1>4. Max(before) \in Int
    BY <1>2, <1>3
  <1>5. QED
    BY <1>4 DEF Value, Slots

LEMMA GainIsNat ==
  ASSUME life \in Lives, NEW p \in Slots, NEW s \in Slots
  PROVE  Gain(p, s) \in Nat
  <1>1. Value(p) \in Int /\ Value(s) \in Int /\ MaxDelta \in Nat
    BY ValueIsInt, ConsumptionAssumption
  <1> HIDE DEF Value
  <1>2. QED
    BY <1>1 DEF Gain

\* Samples are slots: the last one before another is one of them.
LEMMA LatestOf ==
  ASSUME NEW S \in SUBSET Slots, S # {}
  PROVE  Max(S) \in S /\ \A x \in S : x <= Max(S)
  <1> DEFINE last == (LastDay + 1) * SlotsPerDay - 1
  <1>1. last \in Int /\ 0 \in Int
    BY ConsumptionAssumption
  <1>2. S \subseteq 0 .. last
    BY DEF Slots
  <1> HIDE DEF last
  <1>3. QED
    BY <1>1, <1>2, GreatestOf

LEMMA AddedIsNat ==
  ASSUME life \in Lives, NEW seen \in SUBSET Slots, NEW s \in seen
  PROVE  Added(seen, s) \in Nat
  <1> DEFINE earlier == {p \in seen : p < s}
  <1>1. CASE earlier = {}
    BY <1>1 DEF Added
  <1>2. CASE earlier # {}
    <2>1. Max(earlier) \in Slots
      BY <1>2, LatestOf
    <2>2. QED
      BY <1>2, <2>1, GainIsNat DEF Added
  <1>3. QED
    BY <1>1, <1>2

LEMMA SlotsAreFinite == IsFiniteSet(Slots) /\ \A S \in SUBSET Slots : IsFiniteSet(S) /\ S \subseteq Nat
  <1>1. (LastDay + 1) * SlotsPerDay - 1 \in Int
    BY ConsumptionAssumption
  <1>2. IsFiniteSet(Slots)
    BY <1>1, FS_Interval DEF Slots
  <1>3. \A S \in SUBSET Slots : IsFiniteSet(S)
    BY <1>2, FS_Subset
  <1>4. QED
    BY <1>2, <1>3 DEF Slots

\* Reading more before a sample adds nothing less for it: the first sample
\* of a reading adds nothing, any other the gain since the one before it.
LEMMA AddedWithMore ==
  ASSUME life \in Lives, NEW seen \in SUBSET Slots, NEW more \in SUBSET Slots, NEW s \in seen,
         seen \subseteq more, NEW from \in Int, \A p \in more : from <= p => p \in seen,
         \A p \in seen : from <= p
  PROVE  Added(seen, s) <= Added(more, s) /\ (Added(seen, s) = Added(more, s) \/ Added(seen, s) = 0)
  <1> DEFINE few == {p \in seen : p < s}
             many == {p \in more : p < s}
  <1>1. CASE few = {}
    <2>1. Added(seen, s) = 0
      BY <1>1 DEF Added
    <2>2. Added(more, s) \in Nat
      BY AddedIsNat
    <2>3. QED
      BY <2>1, <2>2
  <1>2. CASE few # {}
    <2>1. few \subseteq many /\ many # {} /\ few \in SUBSET Slots /\ many \in SUBSET Slots
      BY <1>2
    <2>2. /\ Max(few) \in few /\ \A x \in few : x <= Max(few)
          /\ Max(many) \in many /\ \A x \in many : x <= Max(many)
      <3> HIDE DEF few, many
      <3>1. QED
        BY <1>2, <2>1, LatestOf
    <2>3. Max(few) = Max(many)
      <3>1. Max(few) \in Nat /\ Max(many) \in Nat /\ Max(few) <= Max(many) /\ from <= Max(few)
        BY <2>1, <2>2, SlotsAreFinite
      <3>2. Max(many) \in few
        BY <2>2, <3>1
      <3>3. QED
        BY <2>2, <3>1, <3>2
    <2>4. Added(seen, s) = Added(more, s)
      BY <1>2, <2>1, <2>3 DEF Added
    <2>5. Added(seen, s) \in Nat
      BY AddedIsNat
    <2>6. QED
      BY <2>4, <2>5
  <1>3. QED
    BY <1>1, <1>2

\* A total taken from samples that are all there for its day is at least
\* what they gained.
LEMMA TotalIsEnough ==
  ASSUME life \in Lives, NEW A \in SUBSET Slots, NEW B \in SUBSET Slots, NEW d \in Int,
         \A s \in Slots : Day(s) = d => (s \in A <=> s \in B)
  PROVE  DayTotal(A, d) >= Live(B, Midnight(d), EndOf(d))
  <1> DEFINE seen == Read(B, Midnight(d), EndOf(d))
             more == Read(A, Midnight(d) - Lookback, EndOf(d))
             few(s) == Added(seen, s)
             many(s) == Added(more, s)
             f == [s \in seen |-> few(s)]
             g == [s \in more |-> many(s)]
  <1>1. /\ Midnight(d) \in Int /\ EndOf(d) \in Int /\ Lookback \in Nat
        /\ \A s \in Slots : s \in Int /\ (Midnight(d) <= s /\ s < EndOf(d) <=> Day(s) = d)
    <2>1. Midnight(d) \in Int /\ EndOf(d) \in Int /\ Lookback \in Nat
      <3>1. d + 1 \in Int /\ Lookback \in Nat
        BY ConsumptionAssumption
      <3>2. QED
        BY <3>1, MidnightGrows DEF EndOf
    <2>2. ASSUME NEW s \in Slots
          PROVE  s \in Int /\ (Midnight(d) <= s /\ s < EndOf(d) <=> Day(s) = d)
      <3>1. s \in Int
        BY DEF Slots
      <3>2. Day(s) \in Int
        BY <3>1, DayOfSlot
      <3>3. (Midnight(d) <= s <=> d <= Day(s)) /\ (s < EndOf(d) <=> Day(s) < d + 1)
        BY <3>1, DayIsBefore DEF EndOf
      <3>4. QED
        BY <3>1, <3>2, <3>3
    <2>3. QED
      BY <2>1, <2>2
  <1>2. /\ seen \in SUBSET Slots /\ more \in SUBSET Slots /\ seen \subseteq more
        /\ \A s \in seen : Midnight(d) <= s
        /\ \A s \in more : Midnight(d) <= s => s \in seen
    BY <1>1 DEF Read
  <1>3. {s \in more : Midnight(d) <= s} = seen /\ {s \in seen : Midnight(d) <= s} = seen
    BY <1>2
  <1>4. ASSUME NEW s \in seen
        PROVE  few(s) \in Nat /\ many(s) \in Nat /\ few(s) <= many(s)
    <2> HIDE DEF seen, more
    <2>1. Added(seen, s) <= Added(more, s)
      BY <1>1, <1>2, AddedWithMore
    <2>2. QED
      BY <1>2, <2>1, AddedIsNat
  <1>5. SumFunctionOnSet(f, seen) <= SumFunctionOnSet(g, seen)
        /\ SumFunctionOnSet(f, seen) \in Nat /\ SumFunctionOnSet(g, seen) \in Nat
    <2>1. IsFiniteSet(seen) /\ seen \subseteq more
      BY <1>2, SlotsAreFinite
    <2> HIDE DEF seen, more, few, many
    <2>2. \A s \in seen : f[s] \in Nat /\ g[s] \in Nat /\ f[s] <= g[s]
      BY <1>4, <2>1
    <2> HIDE DEF f, g
    <2>3. QED
      BY <2>1, <2>2, SumGrows
  <1>6. Live(B, Midnight(d), EndOf(d)) = SumFunctionOnSet(f, seen)
    BY <1>3 DEF Live, Summed
  <1>7. DayTotal(A, d) = SumFunctionOnSet(g, seen)
    BY <1>3 DEF DayTotal, Summed, EndOf
  <1>8. QED
    BY <1>5, <1>6, <1>7

-----------------------------------------------------------------------------
(* The steps.                                                              *)

\* The last day of a summary is the greatest of its days, and before today.
LEMMA LastDayOfSummary ==
  ASSUME ConsumptionShape, DOMAIN daily # {}
  PROVE  /\ LastRolledDay \in DOMAIN daily /\ LastRolledDay \in Int /\ LastRolledDay < Today
         /\ \A d \in DOMAIN daily : d <= LastRolledDay
  <1>1. now \in Int
    BY DEF ConsumptionShape, Slots
  <1>2. Today \in Int
    BY <1>1, DayOfSlot DEF Today
  <1>3. DOMAIN daily \subseteq 0 .. Today - 1 /\ 0 \in Int /\ Today - 1 \in Int
    BY <1>2 DEF ConsumptionShape
  <1>4. Max(DOMAIN daily) \in DOMAIN daily /\ \A d \in DOMAIN daily : d <= Max(DOMAIN daily)
    BY <1>3, GreatestOf
  <1>5. QED
    BY <1>2, <1>3, <1>4 DEF LastRolledDay

\* Whatever leaves the device, the time, the samples and the summary alone
\* leaves the books as they are.
LEMMA BooksSame ==
  ASSUME UNCHANGED <<life, now, metrics, daily>>
  PROVE  /\ Sampled' = Sampled /\ Raw' = Raw /\ Today' = Today
         /\ LastRolledDay' = LastRolledDay
         /\ TotalsComplete => TotalsComplete'
  <1>1. Sampled' = Sampled /\ Raw' = Raw /\ Today' = Today /\ LastRolledDay' = LastRolledDay
    BY DEF Sampled, Raw, Today, LastRolledDay
  <1>2. ASSUME NEW S, NEW from, NEW to
        PROVE  Live(S, from, to)' = Live(S, from, to)
    BY DEF Live, Summed, Read, Added, Gain, Value
  <1>3. TotalsComplete => TotalsComplete'
    BY <1>1, <1>2 DEF TotalsComplete
  <1>4. QED
    BY <1>1, <1>3

LEMMA BooksAtFirst == ConsumptionInit => Books
  <1> SUFFICES ASSUME ConsumptionInit PROVE Books
    OBVIOUS
  <1> USE DEF ConsumptionInit
  <1>1. 0 \in Slots
    <2>1. (LastDay + 1) * SlotsPerDay - 1 \in Nat
      <3>1. LastDay \in Nat /\ SlotsPerDay \in Nat \ {0}
        BY ConsumptionAssumption
      <3>2. (LastDay + 1) * SlotsPerDay = LastDay * SlotsPerDay + SlotsPerDay
        BY <3>1
      <3>3. LastDay * SlotsPerDay \in Nat
        BY <3>1
      <3>4. QED
        BY <3>1, <3>2, <3>3
    <2>2. QED
      BY <2>1 DEF Slots
  <1>2. Sampled = {}
    BY DEF Sampled, Slots
  <1>3. DOMAIN daily = {} /\ daily = [d \in DOMAIN daily |-> daily[d]]
    OBVIOUS
  <1>4. ConsumptionShape
    BY <1>1, <1>3 DEF ConsumptionShape, Idle
  <1>5. QED
    BY <1>2, <1>3, <1>4 DEF Books, NothingPurgedYet, NoHoleBehind, TotalsComplete, Idle


LEMMA TodayIsNat == ASSUME ConsumptionShape PROVE now \in Nat /\ Today \in Nat
  <1>1. now \in Nat
    BY DEF ConsumptionShape, Slots
  <1>2. Midnight(0) = 0
    BY ConsumptionAssumption DEF Midnight
  <1>3. Day(now) \in Int /\ 0 <= Day(now)
    BY <1>1, <1>2, DayOfSlot, DayIsBefore
  <1>4. QED
    BY <1>1, <1>3 DEF Today

\* The samples that are there were taken, at slots.
LEMMA RawIsSampled == ASSUME ConsumptionShape PROVE Raw \subseteq Sampled /\ Sampled \subseteq Slots
  BY DEF ConsumptionShape, Raw, Sampled

LEMMA LesserOf ==
  ASSUME NEW a \in Int, NEW b \in Int
  PROVE  Min({a, b}) \in Int /\ Min({a, b}) <= a /\ Min({a, b}) <= b
  <1>1. \E x \in {a, b} : \A y \in {a, b} : x <= y
    OBVIOUS
  <1>2. QED
    BY <1>1 DEF Min

\* The nightly job takes up the days after the last one of the summary.
LEMMA BooksRollupStart == ASSUME Books, RollupStart PROVE Books'
  <1> USE DEF Books
  <1>1. UNCHANGED <<life, now, metrics, daily, enabled, purge, backfill>> /\ rollup' = DaysToRoll
    BY DEF RollupStart
  <1>2. /\ Sampled' = Sampled /\ Raw' = Raw /\ Today' = Today
        /\ LastRolledDay' = LastRolledDay
        /\ TotalsComplete'
    BY <1>1, BooksSame
  <1>3. Today \in Nat /\ MaxCatchup \in Nat
    BY TodayIsNat, ConsumptionAssumption
  <1>4. CASE LastRolledDay = NoDay
    <2>1. rollup' \subseteq 0 .. Today - 1
      BY <1>1, <1>3, <1>4 DEF DaysToRoll, Days
    <2>2. ConsumptionShape'
      BY <1>1, <1>2, <2>1 DEF ConsumptionShape
    <2>3. ~enabled
      <3>1. DOMAIN daily # {} => LastRolledDay \in 0 .. Today - 1
        BY LastDayOfSummary DEF ConsumptionShape
      <3>2. QED
        BY <1>4, <3>1 DEF NoHoleBehind, NoDay
    <2>4. QED
      BY <1>1, <1>2, <2>2, <2>3 DEF NothingPurgedYet, NoHoleBehind
  <1>5. CASE LastRolledDay # NoDay
    <2> DEFINE end == Min({Today - 1, LastRolledDay + MaxCatchup})
    <2>1. DOMAIN daily # {} /\ LastRolledDay \in 0 .. Today - 1
      <3>1. DOMAIN daily # {}
        BY <1>5 DEF LastRolledDay
      <3>2. QED
        BY <3>1, LastDayOfSummary DEF ConsumptionShape
    <2>2. end \in Int /\ end <= Today - 1
      <3>1. Today - 1 \in Int /\ LastRolledDay + MaxCatchup \in Int
        BY <1>3, <2>1
      <3>2. QED
        BY <3>1, LesserOf
    <2>3. rollup' = LastRolledDay + 1 .. end
      BY <1>1, <1>5 DEF DaysToRoll
    <2> HIDE DEF end
    <2>4. rollup' \subseteq 0 .. Today - 1
      BY <1>3, <2>1, <2>2, <2>3
    <2>5. ConsumptionShape'
      BY <1>1, <1>2, <2>4 DEF ConsumptionShape
    <2>6. \A d \in rollup' : LastRolledDay < d /\ \A e \in LastRolledDay + 1 .. d : e \in rollup'
      BY <2>1, <2>2, <2>3
    <2>7. NoHoleBehind'
      BY <1>1, <1>2, <2>6 DEF NoHoleBehind
    <2>8. QED
      BY <1>1, <1>2, <2>5, <2>7 DEF NothingPurgedYet
  <1>6. QED
    BY <1>4, <1>5

\* What is taken up by the other jobs, the operator and a failure.
LEMMA BooksPurgeStart == ASSUME Books, PurgeStart PROVE Books'
  <1> USE DEF Books
  <1>1. /\ UNCHANGED <<life, now, metrics, daily, enabled, rollup, backfill>> /\ purge' = {Cutoff}
        /\ enabled /\ LastRolledDay # NoDay
    BY DEF PurgeStart
  <1>2. /\ Sampled' = Sampled /\ Raw' = Raw /\ Today' = Today
        /\ LastRolledDay' = LastRolledDay
        /\ TotalsComplete'
    BY <1>1, BooksSame
  <1>3. Cutoff \in Int /\ Cutoff <= EndOf(LastRolledDay)
    <2>1. now - KeptDays * SlotsPerDay \in Int
      <3>1. {KeepDays, DeepestDays + 1, 2} \subseteq 0 .. KeepDays + DeepestDays + 2
        BY ConsumptionAssumption
      <3>2. KeepDays + DeepestDays + 2 \in Int /\ 0 \in Int /\ {KeepDays, DeepestDays + 1, 2} # {}
        BY ConsumptionAssumption
      <3>3. KeptDays \in {KeepDays, DeepestDays + 1, 2}
        BY <3>1, <3>2, GreatestOf DEF KeptDays
      <3>4. KeptDays \in Int /\ SlotsPerDay \in Int /\ now \in Int
        BY <3>3, TodayIsNat, ConsumptionAssumption
      <3>5. QED
        BY <3>4
    <2>2. Midnight(LastRolledDay + 1) \in Int
      <3>1. LastRolledDay \in Int
        BY LastDayOfSummary, <1>1 DEF LastRolledDay
      <3>2. QED
        BY <3>1, MidnightGrows
    <2>3. QED
      BY <2>1, <2>2, LesserOf DEF Cutoff, EndOf
  <1>4. ConsumptionShape'
    BY <1>1, <1>2, <1>3 DEF ConsumptionShape
  <1>5. NoHoleBehind'
    BY <1>1, <1>2, <1>3 DEF NoHoleBehind
  <1>6. QED
    BY <1>1, <1>2, <1>4, <1>5 DEF NothingPurgedYet

LEMMA BooksBackfillStart == ASSUME Careful, Books, BackfillStart PROVE Books'
  <1> USE DEF Books
  <1>1. UNCHANGED <<life, now, metrics, daily, enabled, rollup, purge>> /\ ~enabled
    BY DEF BackfillStart
  <1>2. /\ Sampled' = Sampled /\ Raw' = Raw /\ Today' = Today
        /\ LastRolledDay' = LastRolledDay
        /\ TotalsComplete'
    BY <1>1, BooksSame
  <1>3. backfill' \subseteq 0 .. Today - 1
    <2>1. PICK from \in Days, to \in Days, force \in BOOLEAN : backfill' = DaysToFill(from, to, force)
      BY DEF BackfillStart
    <2> DEFINE end == Min({to, Today - 1})
    <2>2. end \in Int /\ end <= Today - 1
      <3>1. to \in Int /\ Today - 1 \in Int
        BY TodayIsNat DEF Days
      <3>2. QED
        BY <3>1, LesserOf
    <2>3. backfill' \subseteq from .. end
      BY <2>1 DEF DaysToFill
    <2>4. from \in Int /\ 0 <= from
      BY DEF Days
    <2> HIDE DEF end
    <2>5. QED
      BY <2>2, <2>3, <2>4, TodayIsNat
  <1>4. ConsumptionShape'
    BY <1>1, <1>2, <1>3 DEF ConsumptionShape
  <1>5. QED
    BY <1>1, <1>2, <1>4 DEF NothingPurgedYet, NoHoleBehind

LEMMA BooksEnable == ASSUME Careful, Books, EnableRetention PROVE Books'
  <1> USE DEF Books
  <1>1. /\ UNCHANGED <<life, now, metrics, daily, purge, backfill>> /\ enabled' = TRUE /\ rollup' = {}
        /\ ~enabled /\ backfill = {} /\ LastRolledDay # NoDay /\ Covered
    BY DEF EnableRetention, Idle
  <1>2. /\ Sampled' = Sampled /\ Raw' = Raw /\ Today' = Today
        /\ LastRolledDay' = LastRolledDay
        /\ TotalsComplete'
    BY <1>1, BooksSame
  <1>3. ConsumptionShape'
    BY <1>1, <1>2 DEF ConsumptionShape
  <1>4. DOMAIN daily # {} /\ LastRolledDay \in Int /\ LastRolledDay < Today
    BY <1>1, LastDayOfSummary DEF LastRolledDay
  <1>5. ASSUME NEW s \in Sampled
        PROVE  IF s < EndOf(LastRolledDay) THEN Day(s) \in DOMAIN daily ELSE s \in Raw
    <2>1. s \in Raw /\ s \in Int
      BY <1>1, RawIsSampled DEF NothingPurgedYet, Slots
    <2>2. s < EndOf(LastRolledDay) => Day(s) < Today
      <3>1. LastRolledDay + 1 \in Int /\ Day(s) \in Int /\ Today \in Int
        BY <1>4, <2>1, DayOfSlot, TodayIsNat
      <3>2. s < EndOf(LastRolledDay) => Day(s) < LastRolledDay + 1
        BY <2>1, <3>1, DayIsBefore DEF EndOf
      <3>3. QED
        BY <1>4, <3>1, <3>2
    <2>3. QED
      BY <1>1, <2>1, <2>2 DEF Covered
  <1>6. NoHoleBehind'
    BY <1>1, <1>2, <1>4, <1>5 DEF NoHoleBehind, NothingPurgedYet
  <1>7. QED
    BY <1>1, <1>2, <1>3, <1>6 DEF NothingPurgedYet

LEMMA BooksAbort == ASSUME Books, Abort PROVE Books'
  <1> USE DEF Books
  <1>1. /\ UNCHANGED <<life, now, metrics, daily, enabled>>
        /\ rollup' \in {rollup, {}} /\ purge' \in {purge, {}} /\ backfill' \in {backfill, {}}
    BY DEF Abort, Idle
  <1>2. /\ Sampled' = Sampled /\ Raw' = Raw /\ Today' = Today
        /\ LastRolledDay' = LastRolledDay
        /\ TotalsComplete'
    BY <1>1, BooksSame
  <1>3. ConsumptionShape'
    BY <1>1, <1>2 DEF ConsumptionShape
  <1>4. QED
    BY <1>1, <1>2, <1>3 DEF NothingPurgedYet, NoHoleBehind

\* A day is added up from samples that are all there.
LEMMA DayAddedUp ==
  ASSUME Books, NEW d \in 0 .. Today - 1, UNCHANGED <<life, now, metrics>>, daily' = RollupDay(d),
         \A s \in Slots : Day(s) = d => (s \in Raw <=> s \in Sampled)
  PROVE  /\ Sampled' = Sampled /\ Raw' = Raw /\ Today' = Today
         /\ DOMAIN daily' = IF HasRows(Raw, d) THEN DOMAIN daily \union {d} ELSE DOMAIN daily
         /\ daily' = [x \in DOMAIN daily' |-> daily'[x]]
         /\ DOMAIN daily' \subseteq 0 .. Today - 1
         /\ TotalsComplete'
  <1> USE DEF Books
  <1>1. Sampled' = Sampled /\ Raw' = Raw /\ Today' = Today
    BY DEF Sampled, Raw, Today
  <1>2. DOMAIN daily' = IF HasRows(Raw, d) THEN DOMAIN daily \union {d} ELSE DOMAIN daily
    BY DEF RollupDay
  <1>3. daily' = [x \in DOMAIN daily' |-> daily'[x]]
    BY DEF RollupDay, ConsumptionShape
  <1>4. DOMAIN daily' \subseteq 0 .. Today - 1
    BY <1>2 DEF ConsumptionShape
  <1>5. ASSUME NEW S, NEW from, NEW to
        PROVE  Live(S, from, to)' = Live(S, from, to)
    BY DEF Live, Summed, Read, Added, Gain, Value
  <1>6. ASSUME NEW x \in DOMAIN daily'
        PROVE  daily'[x] >= Live(Sampled, Midnight(x), EndOf(x))
    <2>1. CASE HasRows(Raw, d) /\ x = d
      <3>1. daily'[x] = DayTotal(Raw, d)
        BY <2>1 DEF RollupDay
      <3>2. life \in Lives /\ Raw \in SUBSET Slots /\ Sampled \in SUBSET Slots /\ d \in Int
        BY RawIsSampled DEF ConsumptionShape
      <3>3. DayTotal(Raw, d) >= Live(Sampled, Midnight(d), EndOf(d))
        BY <3>2, TotalIsEnough
      <3>4. QED
        BY <2>1, <3>1, <3>3
    <2>2. CASE ~(HasRows(Raw, d) /\ x = d)
      <3>1. x \in DOMAIN daily /\ daily'[x] = daily[x]
        BY <1>2, <1>6, <2>2 DEF RollupDay
      <3>2. QED
        BY <3>1 DEF TotalsComplete
    <2>3. QED
      BY <2>1, <2>2
  <1>7. TotalsComplete'
    BY <1>1, <1>5, <1>6 DEF TotalsComplete
  <1>8. QED
    BY <1>1, <1>2, <1>3, <1>4, <1>7

\* While the retention is off, and for the days after the summary's last one
\* afterwards, the samples of a day are all there.
LEMMA DayIsThere ==
  ASSUME Books, NEW d \in Int, enabled => LastRolledDay < d
  PROVE  \A s \in Slots : Day(s) = d => (s \in Raw <=> s \in Sampled)
  <1> SUFFICES ASSUME NEW s \in Sampled, Day(s) = d PROVE s \in Raw
    BY RawIsSampled DEF Books
  <1> USE DEF Books
  <1>1. CASE ~enabled
    BY <1>1 DEF NothingPurgedYet
  <1>2. CASE enabled
    <2>1. LastRolledDay \in Int /\ LastRolledDay + 1 \in Int /\ s \in Int
      BY <1>2, LastDayOfSummary DEF NoHoleBehind, Sampled, Slots
    <2>2. LastRolledDay + 1 <= Day(s)
      BY <1>2, <2>1
    <2>3. Midnight(LastRolledDay + 1) \in Int /\ Midnight(LastRolledDay + 1) <= s
      BY <2>1, <2>2, DayIsBefore, MidnightGrows
    <2>4. ~(s < EndOf(LastRolledDay))
      BY <2>1, <2>3 DEF EndOf
    <2>5. QED
      BY <1>2, <2>4 DEF NoHoleBehind
  <1>3. QED
    BY <1>1, <1>2 DEF ConsumptionShape

\* A day of the nightly pass is added up.
LEMMA BooksRollupOneDay == ASSUME Books, RollupOneDay PROVE Books'
  <1> USE DEF Books
  <1> DEFINE d == Min(rollup)
  <1>1. /\ UNCHANGED <<life, now, metrics, enabled, purge, backfill>>
        /\ daily' = RollupDay(d) /\ rollup' = rollup \ {d} /\ rollup # {}
    BY DEF RollupOneDay, Idle
  <1>2. d \in rollup /\ (\A e \in rollup : d <= e) /\ d \in 0 .. Today - 1
    <2>1. rollup \subseteq 0 .. Today - 1 /\ 0 \in Int /\ Today - 1 \in Int
      BY TodayIsNat DEF ConsumptionShape
    <2>2. QED
      BY <1>1, <2>1, LeastOf
  <1> HIDE DEF d
  <1>3. \A s \in Slots : Day(s) = d => (s \in Raw <=> s \in Sampled)
    <2>1. d \in Int /\ (enabled => LastRolledDay < d)
      BY <1>2 DEF NoHoleBehind
    <2>2. QED
      BY <2>1, DayIsThere
  <1>4. /\ Sampled' = Sampled /\ Raw' = Raw /\ Today' = Today
        /\ DOMAIN daily' = IF HasRows(Raw, d) THEN DOMAIN daily \union {d} ELSE DOMAIN daily
        /\ daily' = [x \in DOMAIN daily' |-> daily'[x]]
        /\ DOMAIN daily' \subseteq 0 .. Today - 1
        /\ TotalsComplete'
    BY <1>1, <1>2, <1>3, DayAddedUp
  <1>5. ConsumptionShape'
    BY <1>1, <1>4 DEF ConsumptionShape
  <1>6. NothingPurgedYet'
    BY <1>1, <1>4 DEF NothingPurgedYet
  <1>7. NoHoleBehind'
    <2> SUFFICES ASSUME enabled PROVE NoHoleBehind'
      BY <1>1 DEF NoHoleBehind
    <2>1. LastRolledDay \in DOMAIN daily /\ LastRolledDay \in Int /\ LastRolledDay < d
          /\ \A x \in DOMAIN daily : x <= LastRolledDay
      BY <1>2, LastDayOfSummary DEF NoHoleBehind
    <2>2. CASE ~HasRows(Raw, d)
      <3>1. DOMAIN daily' = DOMAIN daily /\ LastRolledDay' = LastRolledDay
        BY <1>4, <2>2 DEF LastRolledDay
      <3>2. ~HasRows(Sampled, d)
        BY <1>3, <2>2, RawIsSampled DEF HasRows
      <3>3. \A x \in rollup' :
               /\ LastRolledDay < x
               /\ \A e \in LastRolledDay + 1 .. x : e \in rollup' \/ ~HasRows(Sampled, e)
        BY <1>1, <3>2 DEF NoHoleBehind
      <3>4. QED
        BY <1>1, <1>4, <3>1, <3>3 DEF NoHoleBehind
    <2>3. CASE HasRows(Raw, d)
      <3>1. DOMAIN daily' = DOMAIN daily \union {d}
        BY <1>4, <2>3
      <3>2. LastRolledDay' = d
        <4>1. DOMAIN daily' # {} /\ 0 \in Int /\ Today - 1 \in Int
          BY <3>1, TodayIsNat
        <4>2. Max(DOMAIN daily') \in DOMAIN daily' /\ \A x \in DOMAIN daily' : x <= Max(DOMAIN daily')
          BY <1>4, <4>1, GreatestOf
        <4>3. Max(DOMAIN daily') = d
          BY <1>2, <2>1, <3>1, <4>2 DEF ConsumptionShape
        <4>4. QED
          BY <4>1, <4>3 DEF LastRolledDay
      <3>3. EndOf(LastRolledDay) <= EndOf(d) /\ EndOf(d) \in Int /\ EndOf(LastRolledDay) \in Int
        <4>1. LastRolledDay + 1 \in Int /\ d + 1 \in Int /\ LastRolledDay + 1 <= d + 1
          BY <1>2, <2>1
        <4>2. QED
          BY <4>1, MidnightGrows DEF EndOf
      <3>4. ASSUME NEW s \in Sampled
            PROVE  IF s < EndOf(d) THEN Day(s) \in DOMAIN daily' ELSE s \in Raw
        <4>1. s \in Int /\ Day(s) \in Int /\ d + 1 \in Int /\ LastRolledDay + 1 \in Int
          BY <1>2, <2>1, DayOfSlot DEF Sampled, Slots
        <4>2. CASE s < EndOf(LastRolledDay)
          BY <3>1, <3>3, <4>1, <4>2 DEF NoHoleBehind
        <4>3. CASE ~(s < EndOf(LastRolledDay)) /\ s < EndOf(d)
          <5>1. LastRolledDay + 1 <= Day(s) /\ Day(s) <= d
            <6>1. ~(Day(s) < LastRolledDay + 1) /\ Day(s) < d + 1
              BY <4>1, <4>3, DayIsBefore DEF EndOf
            <6>2. QED
              BY <1>2, <2>1, <4>1, <6>1
          <5>2. Day(s) \in LastRolledDay + 1 .. d /\ HasRows(Sampled, Day(s))
            BY <2>1, <1>2, <4>1, <5>1 DEF HasRows
          <5>3. Day(s) \in rollup
            BY <1>2, <5>2 DEF NoHoleBehind
          <5>4. Day(s) = d
            BY <1>2, <4>1, <5>1, <5>3
          <5>5. QED
            BY <3>1, <4>3, <5>4
        <4>4. CASE ~(s < EndOf(d))
          <5>1. ~(s < EndOf(LastRolledDay))
            BY <3>3, <4>1, <4>4
          <5>2. QED
            BY <4>4, <5>1 DEF NoHoleBehind
        <4>5. QED
          BY <4>2, <4>3, <4>4
      <3>5. \A x \in rollup' :
               /\ d < x
               /\ \A e \in d + 1 .. x : e \in rollup' \/ ~HasRows(Sampled, e)
        <4>1. ASSUME NEW x \in rollup' PROVE d < x
          BY <1>1, <1>2, <4>1 DEF ConsumptionShape
        <4>2. ASSUME NEW x \in rollup', NEW e \in d + 1 .. x
              PROVE  e \in rollup' \/ ~HasRows(Sampled, e)
          <5>1. e \in LastRolledDay + 1 .. x /\ e # d
            BY <1>2, <2>1, <1>1, <4>2 DEF ConsumptionShape
          <5>2. QED
            BY <1>1, <4>2, <5>1 DEF NoHoleBehind
        <4>3. QED
          BY <4>1, <4>2
      <3>6. \A cutoff \in purge : cutoff <= EndOf(d)
        <4>1. \A cutoff \in purge : cutoff \in Int /\ cutoff <= EndOf(LastRolledDay)
          BY DEF NoHoleBehind, ConsumptionShape
        <4>2. QED
          BY <3>3, <4>1
      <3>7. QED
        BY <1>1, <1>4, <3>1, <3>2, <3>4, <3>5, <3>6 DEF NoHoleBehind
    <2>4. QED
      BY <2>2, <2>3
  <1>8. QED
    BY <1>4, <1>5, <1>6, <1>7

\* A day of the script, which works only while the retention is off.
LEMMA BooksBackfillOneDay == ASSUME Books, BackfillOneDay PROVE Books'
  <1> USE DEF Books
  <1> DEFINE d == Max(backfill)
  <1>1. /\ UNCHANGED <<life, now, metrics, enabled, rollup, purge>>
        /\ daily' = RollupDay(d) /\ backfill' = backfill \ {d} /\ backfill # {} /\ ~enabled
    BY DEF BackfillOneDay, Idle, NoHoleBehind
  <1>2. d \in 0 .. Today - 1
    <2>1. backfill \subseteq 0 .. Today - 1 /\ 0 \in Int /\ Today - 1 \in Int
      BY TodayIsNat DEF ConsumptionShape
    <2>2. QED
      BY <1>1, <2>1, GreatestOf
  <1> HIDE DEF d
  <1>3. \A s \in Slots : Day(s) = d => (s \in Raw <=> s \in Sampled)
    BY <1>1, <1>2, DayIsThere
  <1>4. /\ Sampled' = Sampled /\ Raw' = Raw /\ Today' = Today
        /\ daily' = [x \in DOMAIN daily' |-> daily'[x]]
        /\ DOMAIN daily' \subseteq 0 .. Today - 1
        /\ TotalsComplete'
    BY <1>1, <1>2, <1>3, DayAddedUp
  <1>5. ConsumptionShape'
    BY <1>1, <1>4 DEF ConsumptionShape
  <1>6. QED
    BY <1>1, <1>4, <1>5 DEF NothingPurgedYet, NoHoleBehind

LEMMA MoreDays ==
  ASSUME NEW a \in Int, NEW b \in Int, a <= b
  PROVE  0 .. a - 1 \subseteq 0 .. b - 1
  OBVIOUS

\* A poll is of today, and today is after every day of the books.
LEMMA BooksPoll == ASSUME Books, Poll PROVE Books'
  <1> USE DEF Books
  <1>1. /\ UNCHANGED <<life, daily, enabled, rollup, purge, backfill>>
        /\ now' = now + 1 /\ now' \in Slots
        /\ metrics' = IF now \in life.missed THEN metrics ELSE Persisted({Counter, Signal})
    BY DEF Poll
  <1>2. now \in Nat /\ now \in Slots /\ Today \in Nat /\ Midnight(Today) <= now
    BY TodayIsNat, DayOfSlot DEF ConsumptionShape, Today
  <1>3. Today <= Today' /\ Today' \in Int
    <2>1. Midnight(Today) <= now + 1 /\ now + 1 \in Int /\ Today \in Int
      <3>1. Midnight(Today) \in Int
        BY <1>2, MidnightGrows
      <3>2. QED
        BY <1>2, <3>1
    <2>2. QED
      BY <1>1, <2>1, DayIsBefore, DayOfSlot DEF Today
  <1>4. Sampled \subseteq Sampled' /\ Sampled' \subseteq Sampled \union {now}
        /\ (now \notin life.missed => now \in Sampled')
    BY <1>1, <1>2 DEF Sampled, Slots
  <1>5. \A s \in Sampled' \ Sampled : s = now /\ s \in Raw'
    <2> SUFFICES ASSUME NEW s \in Sampled' \ Sampled PROVE s = now /\ s \in Raw'
      OBVIOUS
    <2>1. s = now /\ now \notin life.missed
      BY <1>1, <1>4 DEF Sampled
    <2>2. [metric |-> Counter, at |-> now] \in metrics'
      BY <1>1, <2>1 DEF Persisted
    <2>3. now \in Raw'
      BY <2>2 DEF Raw
    <2>4. QED
      BY <2>1, <2>3
  <1>6. Raw \subseteq Raw'
    BY <1>1 DEF Raw, Persisted, HISTORY_METRICS
  <1>7. \A r \in metrics' : r.at \in Sampled'
    <2>1. CASE now \in life.missed
      BY <1>1, <1>4, <2>1 DEF ConsumptionShape
    <2>2. CASE now \notin life.missed
      <3>1. \A r \in Persisted({Counter, Signal}) : r \in metrics \/ r.at = now
        BY DEF Persisted
      <3>2. QED
        BY <1>1, <1>4, <2>2, <3>1 DEF ConsumptionShape
    <2>3. QED
      BY <2>1, <2>2
  <1>8. 0 .. Today - 1 \subseteq 0 .. Today' - 1
    <2>1. Today \in Int /\ Today' \in Int /\ Today <= Today'
      BY <1>2, <1>3
    <2>2. QED
      BY <2>1, MoreDays, Zenon
  <1>9. ConsumptionShape'
    BY <1>1, <1>7, <1>8 DEF ConsumptionShape
  <1>10. LastRolledDay' = LastRolledDay
    BY <1>1 DEF LastRolledDay
  <1>11. NothingPurgedYet'
    BY <1>1, <1>5, <1>6 DEF NothingPurgedYet
  <1>12. NoHoleBehind'
    <2> SUFFICES ASSUME enabled PROVE NoHoleBehind'
      BY <1>1 DEF NoHoleBehind
    <2>1. LastRolledDay \in Int /\ LastRolledDay + 1 \in Int /\ LastRolledDay + 1 <= Today
      BY <1>2, LastDayOfSummary DEF NoHoleBehind
    <2>2. ~(now < EndOf(LastRolledDay))
      <3>1. Midnight(LastRolledDay + 1) \in Int /\ Midnight(LastRolledDay + 1) <= now
        BY <1>2, <2>1, DayIsBefore, MidnightGrows DEF Today
      <3>2. QED
        BY <1>2, <3>1 DEF EndOf
    <2>3. \A s \in Sampled' : IF s < EndOf(LastRolledDay) THEN Day(s) \in DOMAIN daily ELSE s \in Raw'
      BY <1>5, <1>6, <2>2 DEF NoHoleBehind
    <2>4. ASSUME NEW x \in rollup, NEW e \in LastRolledDay + 1 .. x
          PROVE  e \in rollup \/ ~HasRows(Sampled', e)
      <3>1. x \in Int /\ x < Today /\ e \in Int /\ e < Today
        BY <1>2, <2>1 DEF ConsumptionShape
      <3>2. HasRows(Sampled', e) => HasRows(Sampled, e)
        BY <1>2, <1>5, <3>1 DEF HasRows, Today
      <3>3. QED
        BY <3>2 DEF NoHoleBehind
    <2>5. QED
      BY <1>1, <1>10, <2>3, <2>4 DEF NoHoleBehind
  <1>13. TotalsComplete'
    <2>1. ASSUME NEW S, NEW from, NEW to
          PROVE  Live(S, from, to)' = Live(S, from, to)
      BY <1>1 DEF Live, Summed, Read, Added, Gain, Value
    <2>2. ASSUME NEW d \in DOMAIN daily
          PROVE  Live(Sampled', Midnight(d), EndOf(d)) = Live(Sampled, Midnight(d), EndOf(d))
      <3>1. d \in Int /\ d + 1 \in Int /\ d + 1 <= Today
        BY <1>2 DEF ConsumptionShape
      <3>2. EndOf(d) \in Int /\ EndOf(d) <= now
        BY <1>2, <3>1, DayIsBefore, MidnightGrows DEF EndOf, Today
      <3>3. Read(Sampled', Midnight(d), EndOf(d)) = Read(Sampled, Midnight(d), EndOf(d))
        BY <1>2, <1>4, <1>5, <3>2 DEF Read
      <3>4. QED
        BY <3>3 DEF Live, Summed
    <2>3. QED
      BY <1>1, <2>1, <2>2 DEF TotalsComplete
  <1>14. QED
    BY <1>9, <1>11, <1>12, <1>13

\* A batch of the purge takes samples of days that stand in the summary.
LEMMA BooksPurgeBatch == ASSUME Books, PurgeBatch PROVE Books'
  <1> USE DEF Books
  <1>1. UNCHANGED <<life, now, daily, enabled, rollup, backfill>> /\ purge # {}
    BY DEF PurgeBatch, Idle
  <1>2. PICK deleted \in SUBSET Purgeable : metrics' = metrics \ deleted
    BY DEF PurgeBatch
  <1>3. purge' \in {purge, {}}
    BY DEF PurgeBatch, Idle
  <1>4. Sampled' = Sampled /\ Today' = Today /\ LastRolledDay' = LastRolledDay
    BY <1>1 DEF Sampled, Today, LastRolledDay
  <1>5. enabled
    BY <1>1 DEF NothingPurgedYet, ConsumptionShape
  <1>6. \A r \in Purgeable : r.at < EndOf(LastRolledDay)
    <2>1. LastRolledDay + 1 \in Int
      BY <1>5, LastDayOfSummary DEF NoHoleBehind
    <2>2. EndOf(LastRolledDay) \in Int
      BY <2>1, MidnightGrows DEF EndOf
    <2>3. \A r \in Purgeable : r.at \in Int
      BY DEF Purgeable, ConsumptionShape, Sampled, Slots
    <2>4. \A cutoff \in purge : cutoff \in Int /\ cutoff <= EndOf(LastRolledDay)
      BY <1>5 DEF NoHoleBehind, ConsumptionShape
    <2>5. QED
      BY <2>2, <2>3, <2>4 DEF Purgeable
  <1>7. \A s \in Raw : ~(s < EndOf(LastRolledDay)) => s \in Raw'
    BY <1>2, <1>6 DEF Raw
  <1>8. ConsumptionShape'
    BY <1>1, <1>2, <1>3, <1>4 DEF ConsumptionShape
  <1>9. NoHoleBehind'
    BY <1>1, <1>3, <1>4, <1>7 DEF NoHoleBehind
  <1>10. TotalsComplete'
    <2>1. ASSUME NEW S, NEW from, NEW to
          PROVE  Live(S, from, to)' = Live(S, from, to)
      BY <1>1 DEF Live, Summed, Read, Added, Gain, Value
    <2>2. QED
      BY <1>1, <1>4, <2>1 DEF TotalsComplete
  <1>11. QED
    BY <1>1, <1>5, <1>8, <1>9, <1>10 DEF NothingPurgedYet

\* One case per action of ConsumptionNext.
LEMMA BooksNext == ASSUME Careful PROVE Books /\ [ConsumptionNext]_consumption => Books'
  <1> SUFFICES ASSUME Books, [ConsumptionNext]_consumption PROVE Books'
    OBVIOUS
  <1>1. CASE UNCHANGED consumption
    <2>1. UNCHANGED <<life, now, metrics, daily, enabled, rollup, purge, backfill>>
      BY <1>1 DEF consumption
    <2>2. /\ Sampled' = Sampled /\ Raw' = Raw /\ Today' = Today
          /\ LastRolledDay' = LastRolledDay
          /\ TotalsComplete'
      BY <2>1, BooksSame DEF Books
    <2>3. QED
      BY <2>1, <2>2 DEF Books, ConsumptionShape, NothingPurgedYet, NoHoleBehind
  <1>2. CASE ConsumptionNext
    BY <1>2, BooksPoll, BooksRollupStart, BooksRollupOneDay, BooksPurgeStart, BooksPurgeBatch,
       BooksBackfillStart, BooksBackfillOneDay, BooksEnable, BooksAbort DEF ConsumptionNext
  <1>3. QED
    BY <1>1, <1>2

LEMMA BooksAlways == ASSUME Careful PROVE ConsumptionSpec => []Books
  <1>1. ConsumptionInit => Books
    BY BooksAtFirst
  <1>2. Books /\ [ConsumptionNext]_consumption => Books'
    BY BooksNext
  <1>3. QED
    BY <1>1, <1>2, PTL DEF ConsumptionSpec

\* With a complete backfill before the retention, no sample is deleted before
\* its day stands in the summary with at least what its samples gained: for
\* any life of the device, any catch-up, any batches, and passes that fail at
\* any point any number of times.
THEOREM NothingIsLostToThePurge ==
  ASSUME Careful
  PROVE  ConsumptionSpec => []NothingPurgedUncounted
  <1>1. Books => NothingPurgedUncounted
    <2> SUFFICES ASSUME Books, NEW s \in Sampled \ Raw
                 PROVE  /\ Day(s) \in DOMAIN daily
                        /\ daily[Day(s)] >= Live(Sampled, Midnight(Day(s)), Midnight(Day(s) + 1))
      BY DEF NothingPurgedUncounted
    <2>1. Day(s) \in DOMAIN daily
      BY DEF Books, ConsumptionShape, NothingPurgedYet, NoHoleBehind
    <2>2. QED
      BY <2>1 DEF Books, TotalsComplete, EndOf
  <1>2. QED
    BY <1>1, BooksAlways, PTL

-----------------------------------------------------------------------------
(* More about sums.                                                        *)

LEMMA SumIsNat ==
  ASSUME NEW f, NEW S, IsFiniteSet(S), \A x \in S : f[x] \in Nat
  PROVE  \A T \in SUBSET S : IsFiniteSet(T) /\ SumFunctionOnSet(f, T) \in Nat
  <1>1. TAKE T \in SUBSET S
  <1>2. IsFiniteSet(T) /\ \A x \in T : f[x] \in Nat /\ f[x] \in Nat /\ f[x] <= f[x]
    BY FS_Subset
  <1>3. QED
    BY <1>2, SumGrows

\* Any term may be taken out first.
LEMMA SumAny ==
  ASSUME NEW f, NEW S, IsFiniteSet(S), \A x \in S : f[x] \in Nat
  PROVE  \A x \in S : SumFunctionOnSet(f, S) = f[x] + SumFunctionOnSet(f, S \ {x})
  <1> DEFINE good(V) == \A x \in V : SumFunctionOnSet(f, V) = f[x] + SumFunctionOnSet(f, V \ {x})
             Wrong == {V \in SUBSET S : ~good(V)}
  <1>1. SUFFICES ASSUME Wrong # {} PROVE FALSE
    OBVIOUS
  <1>2. PICK V \in Wrong : \A W \in Wrong : ~ (W \subseteq V /\ W # V)
    <2>1. Wrong \subseteq SUBSET S
      OBVIOUS
    <2> HIDE DEF Wrong
    <2>2. QED
      BY <1>1, <2>1, LeastSet
  <1>3. V \in SUBSET S /\ IsFiniteSet(V)
    BY FS_Subset
  <1>4. PICK x \in V : SumFunctionOnSet(f, V) # f[x] + SumFunctionOnSet(f, V \ {x})
    OBVIOUS
  <1> DEFINE p == Pick(V)
             X == V \ {x}
             W == V \ {p}
  <1>5. p \in V /\ SumFunctionOnSet(f, V) = f[p] + SumFunctionOnSet(f, W)
    BY <1>3, <1>4, PickIn, SumFirst
  <1>6. p # x
    BY <1>4, <1>5
  <1>7. W \in SUBSET S /\ W \subseteq V /\ W # V /\ x \in W
        /\ X \in SUBSET S /\ X \subseteq V /\ X # V /\ p \in X /\ W \ {x} = X \ {p}
    BY <1>3, <1>5, <1>6
  <1> HIDE DEF p, X, W
  <1>8. good(W) /\ good(X)
    <2> HIDE DEF good
    <2>1. QED
      BY <1>2, <1>7
  <1>9. SumFunctionOnSet(f, W) = f[x] + SumFunctionOnSet(f, W \ {x})
        /\ SumFunctionOnSet(f, X) = f[p] + SumFunctionOnSet(f, X \ {p})
    BY <1>7, <1>8
  <1>10. SumFunctionOnSet(f, X \ {p}) \in Nat /\ f[x] \in Nat /\ f[p] \in Nat
    <2>1. X \ {p} \in SUBSET S /\ x \in S /\ p \in S
      BY <1>3, <1>5, <1>7
    <2>2. QED
      BY <2>1, SumIsNat
  <1>11. SumFunctionOnSet(f, V) # f[x] + SumFunctionOnSet(f, X)
    BY <1>4 DEF X
  <1>12. SumFunctionOnSet(f, W \ {x}) = SumFunctionOnSet(f, X \ {p})
    BY <1>7
  <1>13. QED
    BY <1>5, <1>9, <1>10, <1>11, <1>12, SMT

\* The sum over two sets without a common element.
LEMMA SumJoin ==
  ASSUME NEW f, NEW A, NEW B, IsFiniteSet(A), IsFiniteSet(B), A \cap B = {},
         \A x \in A \union B : f[x] \in Nat
  PROVE  SumFunctionOnSet(f, A \union B) = SumFunctionOnSet(f, A) + SumFunctionOnSet(f, B)
  <1> DEFINE S == A \union B
             good(V) == SumFunctionOnSet(f, A \union V) = SumFunctionOnSet(f, A) + SumFunctionOnSet(f, V)
             Wrong == {V \in SUBSET B : ~good(V)}
  <1>1. SUFFICES ASSUME Wrong # {} PROVE FALSE
    OBVIOUS
  <1>2. PICK V \in Wrong : \A W \in Wrong : ~ (W \subseteq V /\ W # V)
    <2>1. Wrong \subseteq SUBSET B
      OBVIOUS
    <2> HIDE DEF Wrong
    <2>2. QED
      BY <1>1, <2>1, LeastSet
  <1>3. \A T \in SUBSET S : IsFiniteSet(T) /\ SumFunctionOnSet(f, T) \in Nat
    <2>1. IsFiniteSet(S) /\ \A x \in S : f[x] \in Nat
      BY FS_Union
    <2> HIDE DEF S
    <2>2. QED
      BY <2>1, SumIsNat
  <1>4. V # {}
    <2>1. A \union {} = A /\ SumFunctionOnSet(f, A) \in Nat
      BY <1>3
    <2>2. good({})
      BY <2>1, SumEmpty
    <2>3. QED
      BY <2>2
  <1> DEFINE p == Pick(V)
             W == V \ {p}
  <1>5. p \in V
    BY <1>4, PickIn
  <1>6. W \in SUBSET B /\ W \subseteq V /\ W # V /\ V \in SUBSET B
        /\ (A \union V) \ {p} = A \union W
    BY <1>5
  <1>7. good(W)
    <2> HIDE DEF good, W, p
    <2>1. QED
      BY <1>2, <1>6
  <1>8. /\ SumFunctionOnSet(f, V) = f[p] + SumFunctionOnSet(f, W)
        /\ SumFunctionOnSet(f, A \union V) = f[p] + SumFunctionOnSet(f, A \union W)
    <2>1. V \in SUBSET S /\ A \union V \in SUBSET S
      BY <1>6
    <2>2. IsFiniteSet(V) /\ IsFiniteSet(A \union V)
      BY <1>3, <2>1
    <2>3. \A y \in V : f[y] \in Nat
      BY <1>6
    <2>4. \A y \in A \union V : f[y] \in Nat
      BY <1>6
    <2> HIDE DEF W, p
    <2>5. SumFunctionOnSet(f, V) = f[p] + SumFunctionOnSet(f, V \ {p})
      BY <1>5, <2>2, <2>3, SumAny
    <2>6. p \in A \union V
      BY <1>5
    <2> DEFINE Z == A \union V
    <2>7. SumFunctionOnSet(f, Z) = f[p] + SumFunctionOnSet(f, Z \ {p})
      <3> HIDE DEF Z
      <3>1. QED
        BY <2>2, <2>4, <2>6, SumAny DEF Z
    <2>8. QED
      BY <1>6, <2>5, <2>7 DEF W
  <1>9. f[p] \in Nat /\ SumFunctionOnSet(f, A) \in Nat /\ SumFunctionOnSet(f, W) \in Nat
    <2>1. A \in SUBSET S /\ W \in SUBSET S /\ p \in S
      BY <1>5, <1>6
    <2>2. QED
      BY <1>3, <2>1
  <1> HIDE DEF W, p
  <1>10. good(V)
    BY <1>7, <1>8, <1>9
  <1>11. QED
    BY <1>10

\* More terms, more in all; and terms of zero count for nothing.
LEMMA SumOfPart ==
  ASSUME NEW f, NEW A, NEW B, IsFiniteSet(B), A \subseteq B, \A x \in B : f[x] \in Nat
  PROVE  SumFunctionOnSet(f, A) <= SumFunctionOnSet(f, B)
  <1>1. A \in SUBSET B /\ B \ A \in SUBSET B /\ A \union (B \ A) = B /\ A \cap (B \ A) = {}
    OBVIOUS
  <1>2. /\ IsFiniteSet(A) /\ SumFunctionOnSet(f, A) \in Nat
        /\ IsFiniteSet(B \ A) /\ SumFunctionOnSet(f, B \ A) \in Nat
    BY <1>1, SumIsNat
  <1>3. SumFunctionOnSet(f, B) = SumFunctionOnSet(f, A) + SumFunctionOnSet(f, B \ A)
    <2> DEFINE C == B \ A
    <2>1. SumFunctionOnSet(f, A \union C) = SumFunctionOnSet(f, A) + SumFunctionOnSet(f, C)
      <3>1. IsFiniteSet(C) /\ A \cap C = {} /\ \A x \in A \union C : f[x] \in Nat
        BY <1>1, <1>2
      <3> HIDE DEF C
      <3>2. QED
        BY <1>2, <3>1, SumJoin
    <2>2. QED
      BY <1>1, <2>1
  <1>4. QED
    BY <1>2, <1>3

LEMMA SumSame ==
  ASSUME NEW f, NEW h, NEW S, IsFiniteSet(S), \A x \in S : f[x] \in Nat /\ f[x] = h[x]
  PROVE  SumFunctionOnSet(f, S) = SumFunctionOnSet(h, S)
  <1>1. /\ \A x \in S : f[x] \in Nat /\ h[x] \in Nat /\ f[x] <= h[x]
        /\ \A x \in S : h[x] \in Nat /\ f[x] \in Nat /\ h[x] <= f[x]
    OBVIOUS
  <1>2. SumFunctionOnSet(f, S) <= SumFunctionOnSet(h, S) /\ SumFunctionOnSet(f, S) \in Nat
    BY <1>1, SumGrows
  <1>3. SumFunctionOnSet(h, S) <= SumFunctionOnSet(f, S) /\ SumFunctionOnSet(h, S) \in Nat
    BY <1>1, SumGrows
  <1>4. QED
    BY <1>2, <1>3

\* Totals of days, each at most what the samples of its day add up to, add up
\* to at most what the samples of those days do.
LEMMA SumByDay ==
  ASSUME NEW total, NEW g, NEW A \in SUBSET Slots, NEW U, IsFiniteSet(U),
         \A d \in U : total[d] \in Nat,
         \A s \in A : g[s] \in Nat,
         \A d \in U : total[d] <= SumFunctionOnSet(g, {s \in A : Day(s) = d})
  PROVE  SumFunctionOnSet(total, U) <= SumFunctionOnSet(g, {s \in A : Day(s) \in U})
  <1> DEFINE of(V) == {s \in A : Day(s) \in V}
             good(V) == SumFunctionOnSet(total, V) <= SumFunctionOnSet(g, of(V))
             Wrong == {V \in SUBSET U : ~good(V)}
  <1>1. SUFFICES ASSUME Wrong # {} PROVE FALSE
    OBVIOUS
  <1>2. PICK V \in Wrong : \A W \in Wrong : ~ (W \subseteq V /\ W # V)
    <2>1. Wrong \subseteq SUBSET U
      OBVIOUS
    <2> HIDE DEF Wrong
    <2>2. QED
      BY <1>1, <2>1, LeastSet
  <1>3. \A T \in SUBSET A : IsFiniteSet(T) /\ SumFunctionOnSet(g, T) \in Nat
    <2>1. IsFiniteSet(A)
      BY SlotsAreFinite
    <2>2. QED
      BY <2>1, SumIsNat
  <1>4. V # {}
    <2>1. of({}) = {}
      OBVIOUS
    <2>2. good({})
      BY <2>1, SumEmpty
    <2>3. QED
      BY <2>2
  <1> DEFINE p == Pick(V)
             W == V \ {p}
             one == {s \in A : Day(s) = p}
  <1>5. p \in V
    BY <1>4, PickIn
  <1>6. W \in SUBSET U /\ W \subseteq V /\ W # V /\ V \in SUBSET U /\ p \in U
        /\ of(V) = one \union of(W) /\ one \cap of(W) = {}
    BY <1>5
  <1>7. good(W)
    <2> HIDE DEF good, W, p
    <2>1. QED
      BY <1>2, <1>6
  <1>8. SumFunctionOnSet(total, V) = total[p] + SumFunctionOnSet(total, W)
    <2>1. IsFiniteSet(V) /\ \A d \in V : total[d] \in Nat
      BY <1>6, FS_Subset
    <2> HIDE DEF p
    <2>2. QED
      BY <1>5, <2>1, SumAny
  <1>9. SumFunctionOnSet(g, of(V)) = SumFunctionOnSet(g, one) + SumFunctionOnSet(g, of(W))
    <2>1. IsFiniteSet(one) /\ IsFiniteSet(of(W)) /\ \A s \in one \union of(W) : g[s] \in Nat
      BY <1>3
    <2> HIDE DEF one, of, W, p
    <2>2. QED
      BY <1>6, <2>1, SumJoin
  <1>10. total[p] <= SumFunctionOnSet(g, one)
    BY <1>6
  <1>11. /\ total[p] \in Nat /\ SumFunctionOnSet(total, W) \in Nat
         /\ SumFunctionOnSet(g, one) \in Nat /\ SumFunctionOnSet(g, of(W)) \in Nat
    <2>1. one \in SUBSET A /\ of(W) \in SUBSET A
      OBVIOUS
    <2>2. SumFunctionOnSet(total, W) \in Nat
      BY <1>6, SumIsNat
    <2>3. QED
      BY <1>3, <1>6, <2>1, <2>2
  <1> HIDE DEF one, of, W, p
  <1>12. good(V)
    BY <1>7, <1>8, <1>9, <1>10, <1>11
  <1>13. QED
    BY <1>12

-----------------------------------------------------------------------------
(* Parts of what was sampled.                                              *)

\* What each sample of S truly adds: the gain since the one before it.
Gains(S) == [s \in Slots |-> Added(S, s)]

LEMMA OfTwo ==
  ASSUME NEW a \in Int, NEW b \in Int
  PROVE  /\ Max({a, b}) \in {a, b} /\ Min({a, b}) \in {a, b}
         /\ \A s \in Int : (Max({a, b}) <= s <=> a <= s /\ b <= s)
                           /\ (s < Min({a, b}) <=> s < a /\ s < b)
  <1>1. PICK x \in {a, b} : \A y \in {a, b} : y <= x
    OBVIOUS
  <1>2. Max({a, b}) \in {a, b} /\ \A y \in {a, b} : y <= Max({a, b})
    BY <1>1 DEF Max
  <1>3. PICK least \in {a, b} : \A y \in {a, b} : least <= y
    OBVIOUS
  <1>4. Min({a, b}) \in {a, b} /\ \A y \in {a, b} : Min({a, b}) <= y
    BY <1>3 DEF Min
  <1>5. QED
    BY <1>2, <1>4

\* Fewer samples add no more to one of them, if those there are before it
\* have no gap.
LEMMA AddedWithout ==
  ASSUME life \in Lives, NEW seen \in SUBSET Slots, NEW more \in SUBSET Slots, NEW s \in seen,
         seen \subseteq more,
         \A p \in more : \A q \in seen : q < p /\ p < s => p \in seen
  PROVE  Added(seen, s) \in Nat /\ Added(more, s) \in Nat /\ Added(seen, s) <= Added(more, s)
  <1> DEFINE few == {p \in seen : p < s}
             many == {p \in more : p < s}
  <1>1. Added(seen, s) \in Nat /\ Added(more, s) \in Nat
    <2>1. s \in more
      OBVIOUS
    <2>2. QED
      BY <2>1, AddedIsNat
  <1>2. CASE few = {}
    <2>1. Added(seen, s) = 0
      BY <1>2 DEF Added
    <2>2. QED
      BY <1>1, <2>1
  <1>3. CASE few # {}
    <2>1. few \subseteq many /\ many # {} /\ few \in SUBSET Slots /\ many \in SUBSET Slots
      BY <1>3
    <2>2. /\ Max(few) \in few /\ \A x \in few : x <= Max(few)
          /\ Max(many) \in many /\ \A x \in many : x <= Max(many)
      <3> HIDE DEF few, many
      <3>1. QED
        BY <1>3, <2>1, LatestOf
    <2>3. Max(few) \in Nat /\ Max(many) \in Nat /\ Max(few) <= Max(many)
      BY <2>1, <2>2, SlotsAreFinite
    <2>4. Max(many) \in few
      <3>1. CASE Max(few) < Max(many)
        BY <2>2, <3>1
      <3>2. CASE ~(Max(few) < Max(many))
        <4>1. Max(few) = Max(many)
          BY <2>3, <3>2
        <4>2. QED
          BY <2>2, <4>1
      <3>3. QED
        BY <3>1, <3>2
    <2>5. Max(few) = Max(many)
      BY <2>2, <2>3, <2>4
    <2>6. Added(seen, s) = Added(more, s)
      BY <1>3, <2>1, <2>5 DEF Added
    <2>7. QED
      BY <1>1, <2>6
  <1>4. QED
    BY <1>2, <1>3

\* Whatever is read before, an interval of which every sample is there never
\* adds up to more than was truly gained in it.
LEMMA SummedAtMost ==
  ASSUME life \in Lives, NEW A \in SUBSET Slots, NEW B \in SUBSET Slots, A \subseteq B,
         NEW since \in Int, NEW from \in Int, NEW to \in Int, since <= from,
         Read(A, from, to) = Read(B, from, to),
         \A p \in B : \A q \in Read(A, since, to) : q < p /\ p < to => p \in A
  PROVE  /\ Summed(A, since, from, to) \in Nat
         /\ Summed(A, since, from, to) <= SumFunctionOnSet(Gains(B), Read(B, from, to))
  <1> DEFINE seen == Read(A, since, to)
             R == Read(B, from, to)
             f == [s \in seen |-> Added(seen, s)]
  <1>1. Slots \subseteq Int
    BY SlotsAreFinite
  <1>2. seen \in SUBSET Slots /\ seen \subseteq B /\ {s \in seen : from <= s} = R
        /\ R \subseteq seen /\ R \in SUBSET Slots /\ IsFiniteSet(R)
    <2>1. R \in SUBSET Slots /\ seen \in SUBSET Slots /\ seen \subseteq B
      BY DEF Read
    <2>2. {s \in seen : from <= s} = Read(A, from, to)
      <3>1. \A s \in A : since <= s /\ s < to /\ from <= s <=> from <= s /\ s < to
        BY <1>1
      <3>2. QED
        BY <3>1 DEF Read
    <2>3. QED
      BY <2>1, <2>2, SlotsAreFinite
  <1>3. ASSUME NEW s \in R
        PROVE  f[s] \in Nat /\ Gains(B)[s] \in Nat /\ f[s] <= Gains(B)[s]
    <2>1. s \in seen /\ s \in Slots /\ s < to
      BY <1>2 DEF Read
    <2>2. \A p \in B : \A q \in seen : q < p /\ p < s => p \in seen
      <3> SUFFICES ASSUME NEW p \in B, NEW q \in seen, q < p, p < s PROVE p \in seen
        OBVIOUS
      <3>1. p \in Int /\ q \in Int /\ s \in Int
        BY <1>1, <1>2, <2>1
      <3>2. p < to /\ since <= p
        BY <2>1, <3>1 DEF Read
      <3>3. QED
        BY <3>2 DEF Read
    <2>3. Added(seen, s) \in Nat /\ Added(B, s) \in Nat /\ Added(seen, s) <= Added(B, s)
      <3> HIDE DEF seen
      <3>1. QED
        BY <1>2, <2>1, <2>2, AddedWithout
    <2>4. f[s] = Added(seen, s) /\ Gains(B)[s] = Added(B, s)
      BY <2>1 DEF Gains
    <2>5. QED
      BY <2>3, <2>4
  <1>4. Summed(A, since, from, to) = SumFunctionOnSet(f, R)
    BY <1>2 DEF Summed
  <1>5. SumFunctionOnSet(f, R) \in Nat /\ SumFunctionOnSet(f, R) <= SumFunctionOnSet(Gains(B), R)
    <2> HIDE DEF f, R
    <2>1. QED
      BY <1>2, <1>3, SumGrows
  <1>6. QED
    BY <1>4, <1>5

\* Every byte of an interval is what each of its samples truly adds.
LEMMA EverAdds ==
  ASSUME life \in Lives, NEW B \in SUBSET Slots, NEW from \in Nat, NEW to \in Int
  PROVE  Summed(B, 0, from, to) = SumFunctionOnSet(Gains(B), Read(B, from, to))
  <1> DEFINE seen == Read(B, 0, to)
             R == Read(B, from, to)
             f == [s \in seen |-> Added(seen, s)]
  <1>1. Slots \subseteq Nat
    BY SlotsAreFinite
  <1>2. seen \in SUBSET Slots /\ {s \in seen : from <= s} = R /\ R \subseteq seen
        /\ R \in SUBSET Slots /\ IsFiniteSet(R)
    <2>1. R \in SUBSET Slots /\ seen \in SUBSET Slots
      BY DEF Read
    <2>2. {s \in seen : from <= s} = R
      <3>1. \A s \in B : 0 <= s /\ s < to /\ from <= s <=> from <= s /\ s < to
        BY <1>1
      <3>2. QED
        BY <3>1 DEF Read
    <2>3. QED
      BY <2>1, <2>2, SlotsAreFinite
  <1>3. ASSUME NEW s \in R PROVE f[s] \in Nat /\ f[s] = Gains(B)[s]
    <2>1. s \in seen /\ s \in Slots /\ s < to
      BY <1>2 DEF Read
    <2>2. {p \in seen : p < s} = {p \in B : p < s}
      <3>1. s \in Nat /\ \A p \in B : p \in Nat
        BY <1>1, <2>1
      <3>2. \A p \in B : (0 <= p /\ p < to) /\ p < s <=> p < s
        BY <2>1, <3>1
      <3>3. QED
        BY <3>2 DEF Read
    <2>3. Added(seen, s) = Added(B, s)
      BY <2>2 DEF Added
    <2>4. Added(seen, s) \in Nat
      <3> HIDE DEF seen
      <3>1. QED
        BY <1>2, <2>1, AddedIsNat
    <2>5. QED
      BY <2>1, <2>3, <2>4 DEF Gains
  <1>4. Summed(B, 0, from, to) = SumFunctionOnSet(f, R)
    BY <1>2 DEF Summed
  <1>5. SumFunctionOnSet(f, R) = SumFunctionOnSet(Gains(B), R)
    <2> HIDE DEF f, R
    <2>1. QED
      BY <1>2, <1>3, SumSame
  <1>6. QED
    BY <1>4, <1>5

LEMMA LiveIs ==
  ASSUME life \in Lives, NEW A \in SUBSET Slots, NEW from \in Int, NEW to \in Int
  PROVE  Live(A, from, to) = SumFunctionOnSet(Gains(Read(A, from, to)), Read(A, from, to))
  <1> DEFINE R == Read(A, from, to)
             f == [s \in R |-> Added(R, s)]
  <1>1. R \in SUBSET Slots /\ {s \in R : from <= s} = R /\ IsFiniteSet(R)
    <2>1. R \in SUBSET Slots /\ {s \in R : from <= s} = R
      BY DEF Read
    <2>2. QED
      BY <2>1, SlotsAreFinite
  <1>2. Live(A, from, to) = SumFunctionOnSet(f, R)
    BY <1>1 DEF Live, Summed
  <1>3. \A s \in R : f[s] \in Nat /\ f[s] = Gains(R)[s]
    <2>1. TAKE s \in R
    <2>2. f[s] = Added(R, s) /\ s \in Slots
      BY <1>1
    <2>3. Added(R, s) \in Nat
      <3> HIDE DEF R
      <3>1. QED
        BY <1>1, AddedIsNat
    <2>4. QED
      BY <2>2, <2>3 DEF Gains
  <1> HIDE DEF f, R
  <1>4. SumFunctionOnSet(f, R) = SumFunctionOnSet(Gains(R), R)
    BY <1>1, <1>3, SumSame
  <1>5. QED
    BY <1>2, <1>4 DEF R

\* Days, each with what is gained between its samples, are within the
\* interval they are days of.
LEMMA DaysWithin ==
  ASSUME life \in Lives, NEW A \in SUBSET Slots, NEW from \in Int, NEW to \in Int, NEW U \in SUBSET Days,
         NEW total,
         \A d \in U : total[d] = Live(A, Max({from, Midnight(d)}), Min({to, EndOf(d)}))
  PROVE  /\ Live(A, from, to) \in Nat
         /\ \A d \in U : total[d] \in Nat
         /\ SumFunctionOnSet(total, U) <= Live(A, from, to)
  <1> DEFINE R == Read(A, from, to)
             g == Gains(R)
  <1>1. R \in SUBSET Slots /\ IsFiniteSet(R) /\ Slots \subseteq Int
    <2>1. R \in SUBSET Slots
      BY DEF Read
    <2>2. QED
      BY <2>1, SlotsAreFinite
  <1>2. \A s \in R : g[s] \in Nat
    <2>1. TAKE s \in R
    <2>2. Added(R, s) \in Nat
      <3> HIDE DEF R
      <3>1. QED
        BY <1>1, AddedIsNat
    <2>3. QED
      BY <1>1, <2>2 DEF Gains
  <1>3. Live(A, from, to) = SumFunctionOnSet(g, R)
    BY LiveIs
  <1>4. ASSUME NEW d \in U
        PROVE  total[d] \in Nat /\ total[d] <= SumFunctionOnSet(g, {s \in R : Day(s) = d})
    <2> DEFINE l == Max({from, Midnight(d)})
               u == Min({to, EndOf(d)})
               Q == Read(A, l, u)
    <2>1. d \in Int /\ d + 1 \in Int /\ Midnight(d) \in Int /\ EndOf(d) \in Int
      <3>1. d \in Int
        BY ConsumptionAssumption DEF Days
      <3>2. QED
        BY <3>1, MidnightGrows DEF EndOf
    <2>2. l \in Int /\ u \in Int
          /\ \A s \in Int : (l <= s <=> from <= s /\ Midnight(d) <= s)
                            /\ (s < u <=> s < to /\ s < EndOf(d))
      <3> DEFINE m == Midnight(d)
                 e == EndOf(d)
      <3>1. m \in Int /\ e \in Int
        BY <2>1
      <3> HIDE DEF m, e
      <3>2. /\ Max({from, m}) \in {from, m} /\ Min({to, e}) \in {to, e}
            /\ \A s \in Int : (Max({from, m}) <= s <=> from <= s /\ m <= s)
                              /\ (s < Min({to, e}) <=> s < to /\ s < e)
        BY <3>1, OfTwo
      <3>3. QED
        BY <3>1, <3>2 DEF m, e
    <2> HIDE DEF l, u
    <2>3. Q = {s \in R : Day(s) = d}
      <3>1. \A s \in Slots : Midnight(d) <= s /\ s < EndOf(d) <=> Day(s) = d
        <4>1. TAKE s \in Slots
        <4>2. s \in Int /\ Day(s) \in Int
          BY <1>1, DayOfSlot
        <4>3. (Midnight(d) <= s <=> d <= Day(s)) /\ (s < EndOf(d) <=> Day(s) < d + 1)
          BY <2>1, <4>2, DayIsBefore DEF EndOf
        <4>4. QED
          BY <2>1, <4>2, <4>3
      <3>2. \A s \in A : l <= s /\ s < u <=> (from <= s /\ s < to) /\ Day(s) = d
        BY <1>1, <2>2, <3>1
      <3>3. QED
        BY <3>2 DEF Read
    <2>4. Q \in SUBSET Slots /\ Q \subseteq R /\ IsFiniteSet(Q)
      BY <1>1, <2>3, FS_Subset
    <2>5. total[d] = SumFunctionOnSet(Gains(Q), Q)
      <3>1. total[d] = Live(A, l, u)
        BY DEF l, u
      <3>2. QED
        BY <2>2, <3>1, LiveIs
    <2>6. ASSUME NEW s \in Q
          PROVE  Gains(Q)[s] \in Nat /\ g[s] \in Nat /\ Gains(Q)[s] <= g[s]
      <3>1. \A p \in R : \A q \in Q : q < p /\ p < s => p \in Q
        <4> SUFFICES ASSUME NEW p \in R, NEW q \in Q, q < p, p < s PROVE p \in Q
          OBVIOUS
        <4>1. p \in Int /\ q \in Int /\ s \in Int /\ p \in A
          BY <1>1, <2>4 DEF Read
        <4>2. l <= q /\ s < u
          BY DEF Read
        <4>3. l <= p /\ p < u
          BY <2>2, <4>1, <4>2
        <4>4. QED
          BY <4>1, <4>3 DEF Read
      <3>2. Added(Q, s) \in Nat /\ Added(R, s) \in Nat /\ Added(Q, s) <= Added(R, s)
        <4> HIDE DEF Q, R
        <4>1. QED
          BY <1>1, <2>4, <3>1, AddedWithout
      <3>3. QED
        BY <2>4, <3>2 DEF Gains
    <2>7. SumFunctionOnSet(Gains(Q), Q) \in Nat /\ SumFunctionOnSet(Gains(Q), Q) <= SumFunctionOnSet(g, Q)
      <3> HIDE DEF Q, g
      <3>1. QED
        BY <2>4, <2>6, SumGrows
    <2>8. QED
      BY <2>3, <2>5, <2>7
  <1>5. IsFiniteSet(U)
    <2>1. LastDay \in Int /\ 0 \in Int
      BY ConsumptionAssumption
    <2>2. IsFiniteSet(Days)
      BY <2>1, FS_Interval DEF Days
    <2>3. QED
      BY <2>2, FS_Subset
  <1>6. SumFunctionOnSet(total, U) <= SumFunctionOnSet(g, {s \in R : Day(s) \in U})
    <2>1. /\ \A d \in U : total[d] \in Nat
          /\ \A d \in U : total[d] <= SumFunctionOnSet(g, {s \in R : Day(s) = d})
      BY <1>4
    <2> HIDE DEF R, g
    <2>2. QED
      BY <1>1, <1>2, <1>5, <2>1, SumByDay
  <1>7. /\ SumFunctionOnSet(g, {s \in R : Day(s) \in U}) <= SumFunctionOnSet(g, R)
        /\ SumFunctionOnSet(g, {s \in R : Day(s) \in U}) \in Nat /\ SumFunctionOnSet(g, R) \in Nat
    <2>1. {s \in R : Day(s) \in U} \subseteq R
      OBVIOUS
    <2> DEFINE P == {s \in R : Day(s) \in U}
    <2>2. P \in SUBSET R /\ R \in SUBSET R
      OBVIOUS
    <2> HIDE DEF P, R, g
    <2>3. SumFunctionOnSet(g, P) <= SumFunctionOnSet(g, R)
      BY <1>1, <1>2, <2>2, SumOfPart
    <2>4. SumFunctionOnSet(g, P) \in Nat /\ SumFunctionOnSet(g, R) \in Nat
      BY <1>1, <1>2, <2>2, SumIsNat
    <2>5. QED
      BY <2>3, <2>4 DEF P
  <1>8. SumFunctionOnSet(total, U) \in Nat
    <2>1. \A d \in U : total[d] \in Nat
      BY <1>4
    <2>2. QED
      BY <1>5, <2>1, SumIsNat
  <1>9. /\ SumFunctionOnSet(total, U) <= SumFunctionOnSet(g, R)
        /\ SumFunctionOnSet(g, R) \in Nat
    <2> DEFINE a == SumFunctionOnSet(total, U)
               b == SumFunctionOnSet(g, {s \in R : Day(s) \in U})
               c == SumFunctionOnSet(g, R)
    <2>1. a <= b /\ b <= c /\ a \in Nat /\ b \in Nat /\ c \in Nat
      BY <1>6, <1>7, <1>8
    <2> HIDE DEF a, b, c
    <2>2. a <= c /\ c \in Nat
      BY <2>1
    <2>3. QED
      BY <2>2 DEF a, c
  <1>10. \A d \in U : total[d] \in Nat
    BY <1>4
  <1> HIDE DEF R, g
  <1>11. QED
    BY <1>3, <1>9, <1>10

-----------------------------------------------------------------------------
(* What a page must be able to count on, besides the books.                *)

\* A purge leaves the look-back of the days still to be added up alone.
PurgedInTime ==
    Lookback > 1 => \A cutoff \in purge : cutoff + Lookback <= EndOf(LastRolledDay)

\* A day of the summary stands for no more than was truly gained in it.
TotalsFair ==
    \A d \in DOMAIN daily : daily[d] \in Nat /\ daily[d] <= Ever(<<Midnight(d), EndOf(d)>>)

\* What a page may still read live was never purged, nor what the next day
\* added up looks back at.
StillThere ==
    /\ \A cutoff \in purge : cutoff <= now - KeptDays * SlotsPerDay
    /\ \A s \in Sampled \ Raw :
          /\ s < now - KeptDays * SlotsPerDay
          /\ Lookback > 1 => s + Lookback < EndOf(LastRolledDay)

LEMMA KeptIsEnough ==
  /\ KeptDays \in Nat /\ 2 <= KeptDays /\ DeepestDays + 1 <= KeptDays
  /\ KeptDays * SlotsPerDay \in Int
  <1>1. /\ {KeepDays, DeepestDays + 1, 2} \subseteq 0 .. KeepDays + DeepestDays + 2
        /\ KeepDays + DeepestDays + 2 \in Int /\ 0 \in Int /\ {KeepDays, DeepestDays + 1, 2} # {}
    BY ConsumptionAssumption
  <1>2. /\ KeptDays \in {KeepDays, DeepestDays + 1, 2}
        /\ \A x \in {KeepDays, DeepestDays + 1, 2} : x <= KeptDays
    BY <1>1, GreatestOf DEF KeptDays
  <1>3. KeptDays \in Nat /\ 2 <= KeptDays /\ DeepestDays + 1 <= KeptDays
    BY <1>2, ConsumptionAssumption
  <1>4. QED
    BY <1>3, ConsumptionAssumption

\* Whatever leaves the device, the time and the summary alone leaves the
\* totals fair.
LEMMA FairSame ==
  ASSUME TotalsFair, UNCHANGED <<life, now, daily>>
  PROVE  TotalsFair'
  <1>1. Sampled' = Sampled
    BY DEF Sampled
  <1>2. ASSUME NEW w PROVE Ever(w)' = Ever(w)
    BY <1>1 DEF Ever, Summed, Read, Added, Gain, Value
  <1>3. QED
    BY <1>2 DEF TotalsFair

\* The look-back of a day to add up has no gap.
LEMMA LookbackHasNoGap ==
  ASSUME Books, StillThere, NEW d \in 0 .. Today - 1, enabled => LastRolledDay < d,
         NEW p \in Sampled, NEW q \in Raw, Midnight(d) - Lookback <= q, q < p, p < EndOf(d)
  PROVE  p \in Raw
  <1> USE DEF Books
  <1>1. p \in Int /\ q \in Int /\ p \in Slots /\ Lookback \in Nat /\ d \in Int
    BY RawIsSampled, ConsumptionAssumption DEF Slots
  <1>2. Midnight(d) \in Int /\ EndOf(d) \in Int
    <2>1. d + 1 \in Int
      BY <1>1
    <2>2. QED
      BY <1>1, <2>1, MidnightGrows DEF EndOf
  <1>3. CASE Midnight(d) <= p
    <2>1. Day(p) = d
      <3>1. d <= Day(p) /\ Day(p) < d + 1 /\ Day(p) \in Int
        BY <1>1, <1>3, DayIsBefore, DayOfSlot DEF EndOf
      <3>2. QED
        BY <1>1, <3>1
    <2>2. \A s \in Slots : Day(s) = d => (s \in Raw <=> s \in Sampled)
      BY <1>1, DayIsThere
    <2>3. QED
      BY <1>1, <2>1, <2>2
  <1>4. CASE ~(Midnight(d) <= p) /\ ~enabled
    BY <1>4 DEF NothingPurgedYet
  <1>5. CASE ~(Midnight(d) <= p) /\ enabled
    <2>1. SUFFICES ASSUME p \notin Raw PROVE FALSE
      OBVIOUS
    <2>2. LastRolledDay \in Int /\ LastRolledDay + 1 \in Int /\ LastRolledDay + 1 <= d
      BY <1>1, <1>5, LastDayOfSummary DEF NoHoleBehind
    <2>3. EndOf(LastRolledDay) \in Int /\ EndOf(LastRolledDay) <= Midnight(d)
      BY <1>1, <2>2, MidnightGrows DEF EndOf
    <2>4. Lookback > 1 => p + Lookback < EndOf(LastRolledDay)
      BY <2>1 DEF StillThere
    <2> HIDE DEF EndOf, Midnight, StillThere
    <2>5. QED
      BY <1>1, <1>2, <1>5, <2>3, <2>4
  <1>6. QED
    BY <1>3, <1>4, <1>5

\* So the total of a day added up is what its samples truly gained.
LEMMA FairDay ==
  ASSUME Books, StillThere, NEW d \in 0 .. Today - 1, enabled => LastRolledDay < d
  PROVE  DayTotal(Raw, d) \in Nat /\ DayTotal(Raw, d) <= Ever(<<Midnight(d), EndOf(d)>>)
  <1> DEFINE m == Midnight(d)
             e == EndOf(d)
             since == m - Lookback
  <1>1. d \in Int /\ d + 1 \in Int /\ 0 <= d /\ Lookback \in Nat
    BY ConsumptionAssumption
  <1>2. m \in Nat /\ e \in Int
    <2>1. Midnight(0) = 0 /\ 0 \in Int
      BY ConsumptionAssumption DEF Midnight
    <2>2. m \in Int /\ Midnight(0) <= m
      BY <1>1, <2>1, MidnightGrows
    <2>3. e \in Int
      BY <1>1, MidnightGrows DEF EndOf
    <2>4. QED
      BY <2>1, <2>2, <2>3
  <1>3. life \in Lives /\ Raw \in SUBSET Slots /\ Sampled \in SUBSET Slots /\ Raw \subseteq Sampled
    BY RawIsSampled DEF Books, ConsumptionShape
  <1>4. Read(Raw, m, e) = Read(Sampled, m, e)
    <2>1. \A s \in Slots : Day(s) = d => (s \in Raw <=> s \in Sampled)
      BY <1>1, DayIsThere
    <2>2. ASSUME NEW s \in Slots, m <= s, s < e PROVE Day(s) = d
      <3>1. s \in Int
        BY DEF Slots
      <3>2. d <= Day(s) /\ Day(s) < d + 1 /\ Day(s) \in Int
        BY <1>1, <2>2, <3>1, DayIsBefore, DayOfSlot DEF EndOf
      <3>3. QED
        BY <1>1, <3>2
    <2> HIDE DEF m, e
    <2>3. QED
      BY <1>3, <2>1, <2>2 DEF Read
  <1>5. \A p \in Sampled : \A q \in Read(Raw, since, e) : q < p /\ p < e => p \in Raw
    <2> SUFFICES ASSUME NEW p \in Sampled, NEW q \in Read(Raw, since, e), q < p, p < e
                 PROVE  p \in Raw
      OBVIOUS
    <2>1. q \in Raw /\ Midnight(d) - Lookback <= q
      BY DEF Read
    <2>2. QED
      BY <2>1, LookbackHasNoGap
  <1>6. since \in Int /\ since <= m
    <2> HIDE DEF m
    <2>1. QED
      BY <1>1, <1>2
  <1>7. DayTotal(Raw, d) = Summed(Raw, since, m, e)
    BY DEF DayTotal, EndOf
  <1>8. Ever(<<m, e>>) = Summed(Sampled, 0, m, e)
    BY DEF Ever
  <1> HIDE DEF m, e, since
  <1>9. /\ Summed(Raw, since, m, e) \in Nat
        /\ Summed(Raw, since, m, e) <= SumFunctionOnSet(Gains(Sampled), Read(Sampled, m, e))
    BY <1>2, <1>3, <1>4, <1>5, <1>6, SummedAtMost
  <1>10. Summed(Sampled, 0, m, e) = SumFunctionOnSet(Gains(Sampled), Read(Sampled, m, e))
    BY <1>2, <1>3, EverAdds
  <1>11. QED
    BY <1>7, <1>8, <1>9, <1>10 DEF m, e

LEMMA FairDayAddedUp ==
  ASSUME Books, StillThere, TotalsFair, NEW d \in 0 .. Today - 1, enabled => LastRolledDay < d,
         UNCHANGED <<life, now, metrics>>, daily' = RollupDay(d)
  PROVE  TotalsFair'
  <1>1. Sampled' = Sampled
    BY DEF Sampled
  <1>2. ASSUME NEW w PROVE Ever(w)' = Ever(w)
    BY <1>1 DEF Ever, Summed, Read, Added, Gain, Value
  <1>3. ASSUME NEW x \in DOMAIN daily'
        PROVE  daily'[x] \in Nat /\ daily'[x] <= Ever(<<Midnight(x), EndOf(x)>>)
    <2>1. CASE HasRows(Raw, d) /\ x = d
      <3>1. daily'[x] = DayTotal(Raw, d)
        BY <2>1 DEF RollupDay
      <3>2. QED
        BY <2>1, <3>1, FairDay
    <2>2. CASE ~(HasRows(Raw, d) /\ x = d)
      <3>1. x \in DOMAIN daily /\ daily'[x] = daily[x]
        BY <1>3, <2>2 DEF RollupDay
      <3>2. QED
        BY <3>1 DEF TotalsFair
    <2>3. QED
      BY <2>1, <2>2
  <1>4. QED
    BY <1>2, <1>3 DEF TotalsFair

\* The summary only grows, and so does its last day.
LEMMA LastDayGrows ==
  ASSUME Books, Books', DOMAIN daily # {}, DOMAIN daily \subseteq DOMAIN daily'
  PROVE  /\ LastRolledDay \in Int /\ LastRolledDay' \in Int /\ LastRolledDay <= LastRolledDay'
         /\ EndOf(LastRolledDay) \in Int /\ EndOf(LastRolledDay') \in Int
         /\ EndOf(LastRolledDay) <= EndOf(LastRolledDay')
  <1>1. LastRolledDay \in DOMAIN daily /\ LastRolledDay \in Int
    BY LastDayOfSummary DEF Books
  <1>2. DOMAIN daily' \subseteq 0 .. Today' - 1 /\ now' \in Int
    BY DEF Books, ConsumptionShape, Slots
  <1>3. Today' \in Int /\ Today' - 1 \in Int /\ 0 \in Int
    BY <1>2, DayOfSlot DEF Today
  <1>4. Max(DOMAIN daily') \in DOMAIN daily' /\ \A x \in DOMAIN daily' : x <= Max(DOMAIN daily')
    BY <1>1, <1>2, <1>3, GreatestOf
  <1>5. LastRolledDay' = Max(DOMAIN daily')
    BY <1>1 DEF LastRolledDay
  <1>6. LastRolledDay' \in Int /\ LastRolledDay <= LastRolledDay'
    BY <1>1, <1>2, <1>4, <1>5
  <1> DEFINE a == LastRolledDay + 1
             b == LastRolledDay' + 1
  <1>7. a \in Int /\ b \in Int /\ a <= b
    BY <1>1, <1>6
  <1>8. Midnight(a) \in Int /\ Midnight(b) \in Int /\ Midnight(a) <= Midnight(b)
    BY <1>7, MidnightGrows
  <1>9. QED
    BY <1>1, <1>6, <1>8 DEF EndOf

LEMMA StillThereSame ==
  ASSUME Books, StillThere, UNCHANGED <<now, life, metrics, daily>>,
         \A cutoff \in purge' : cutoff \in purge \/ cutoff <= now - KeptDays * SlotsPerDay
  PROVE  StillThere'
  BY DEF StillThere, Sampled, Raw, LastRolledDay

LEMMA StillThereAddedUp ==
  ASSUME Books, Books', StillThere, UNCHANGED <<now, life, metrics, purge, enabled>>,
         DOMAIN daily \subseteq DOMAIN daily'
  PROVE  StillThere'
  <1>1. Sampled' = Sampled /\ Raw' = Raw
    BY DEF Sampled, Raw
  <1>2. CASE ~enabled
    BY <1>1, <1>2 DEF StillThere, Books, NothingPurgedYet
  <1>3. CASE enabled
    <2>1. DOMAIN daily # {}
      BY <1>3 DEF Books, NoHoleBehind
    <2>2. /\ EndOf(LastRolledDay) \in Int /\ EndOf(LastRolledDay') \in Int
          /\ EndOf(LastRolledDay) <= EndOf(LastRolledDay')
      BY <2>1, LastDayGrows
    <2>3. Lookback \in Nat /\ \A s \in Sampled : s \in Int
      BY ConsumptionAssumption DEF Sampled, Slots
    <2>4. \A s \in Sampled \ Raw : Lookback > 1 => s + Lookback < EndOf(LastRolledDay')
      BY <2>2, <2>3 DEF StillThere
    <2>5. EndOf(LastRolledDay)' = EndOf(LastRolledDay')
      BY DEF EndOf, Midnight
    <2>6. QED
      BY <1>1, <2>4, <2>5 DEF StillThere
  <1>4. QED
    BY <1>2, <1>3

LEMMA StillThereBatch ==
  ASSUME Books, StillThere, PurgedInTime, PurgeBatch
  PROVE  StillThere'
  <1>1. UNCHANGED <<life, now, daily>> /\ purge' \in {purge, {}}
    BY DEF PurgeBatch, Idle
  <1>2. PICK deleted \in SUBSET Purgeable : metrics' = metrics \ deleted
    BY DEF PurgeBatch
  <1>3. Sampled' = Sampled /\ LastRolledDay' = LastRolledDay
    BY <1>1 DEF Sampled, LastRolledDay
  <1>4. purge = {} \/ enabled
    BY DEF Books, NothingPurgedYet, ConsumptionShape
  <1>5. ASSUME NEW s \in Sampled \ Raw', s \in Raw
        PROVE  /\ s < now - KeptDays * SlotsPerDay
               /\ Lookback > 1 => s + Lookback < EndOf(LastRolledDay)
    <2>1. PICK r \in metrics : r.metric = Counter /\ r.at = s
      BY <1>5 DEF Raw
    <2>2. r \in deleted
      BY <1>2, <1>5, <2>1 DEF Raw
    <2>3. PICK cutoff \in purge : s < cutoff
      BY <2>1, <2>2 DEF Purgeable
    <2>4. cutoff \in Int /\ s \in Int /\ now \in Int /\ KeptDays * SlotsPerDay \in Int /\ Lookback \in Nat
      BY KeptIsEnough, ConsumptionAssumption DEF Books, ConsumptionShape, Sampled, Slots
    <2>5. EndOf(LastRolledDay) \in Int
      <3>1. LastRolledDay + 1 \in Int
        BY <1>4, LastDayOfSummary DEF Books, NoHoleBehind
      <3>2. QED
        BY <3>1, MidnightGrows DEF EndOf
    <2>6. cutoff <= now - KeptDays * SlotsPerDay
      BY DEF StillThere
    <2>7. Lookback > 1 => cutoff + Lookback <= EndOf(LastRolledDay)
      BY DEF PurgedInTime
    <2> DEFINE kept == KeptDays * SlotsPerDay
               end  == EndOf(LastRolledDay)
    <2> HIDE DEF kept, end
    <2>8. s < now - kept
      BY <2>3, <2>4, <2>6 DEF kept
    <2>9. Lookback > 1 => s + Lookback < end
      BY <2>3, <2>4, <2>5, <2>7 DEF end
    <2>10. QED
      BY <2>8, <2>9 DEF kept, end
  <1>6. ASSUME NEW s \in Sampled \ Raw'
        PROVE  /\ s < now - KeptDays * SlotsPerDay
               /\ Lookback > 1 => s + Lookback < EndOf(LastRolledDay)
    <2>1. CASE s \in Raw
      BY <1>5, <1>6, <2>1
    <2>2. CASE s \notin Raw
      BY <1>6, <2>2 DEF StillThere
    <2>3. QED
      BY <2>1, <2>2
  <1>7. \A cutoff \in purge' : cutoff <= now - KeptDays * SlotsPerDay
    BY <1>1 DEF StillThere
  <1>8. EndOf(LastRolledDay)' = EndOf(LastRolledDay)
    BY <1>3 DEF EndOf, Midnight
  <1>9. QED
    BY <1>1, <1>3, <1>6, <1>7, <1>8 DEF StillThere

LEMMA PageHoldsPoll ==
  ASSUME Books, StillThere, TotalsFair, Poll
  PROVE  StillThere' /\ TotalsFair'
  <1> USE DEF Books
  <1>1. /\ UNCHANGED <<life, daily, purge>>
        /\ now' = now + 1 /\ now' \in Slots
        /\ metrics' = IF now \in life.missed THEN metrics ELSE Persisted({Counter, Signal})
    BY DEF Poll
  <1>2. now \in Nat /\ now \in Slots /\ Today \in Nat /\ Midnight(Today) <= now
    BY TodayIsNat, DayOfSlot DEF ConsumptionShape, Today
  <1>3. \A s \in Slots : s < now + 1 <=> s < now \/ s = now
    BY <1>2 DEF Slots
  <1>4. Sampled' = Sampled \union ({now} \ life.missed)
    BY <1>1, <1>2, <1>3 DEF Sampled
  <1>5. Sampled' \ Raw' \subseteq Sampled \ Raw
    <2>1. Raw \subseteq Raw'
      BY <1>1 DEF Raw, Persisted, HISTORY_METRICS
    <2>2. ASSUME now \notin life.missed PROVE now \in Raw'
      <3>1. [metric |-> Counter, at |-> now] \in metrics'
        BY <1>1, <2>2 DEF Persisted
      <3>2. QED
        BY <3>1 DEF Raw
    <2>3. QED
      BY <1>4, <2>1, <2>2
  <1>6. LastRolledDay' = LastRolledDay /\ EndOf(LastRolledDay)' = EndOf(LastRolledDay)
    BY <1>1 DEF LastRolledDay, EndOf, Midnight
  <1>7. StillThere'
    <2> DEFINE kept == KeptDays * SlotsPerDay
    <2>1. kept \in Int
      BY KeptIsEnough
    <2> HIDE DEF kept
    <2>2. \A x \in Int : (x < now - kept => x < now' - kept) /\ (x <= now - kept => x <= now' - kept)
      BY <1>1, <1>2, <2>1
    <2>3. /\ \A cutoff \in purge : cutoff \in Int
          /\ \A s \in Sampled : s \in Int
      BY DEF ConsumptionShape, Sampled, Slots
    <2>4. kept' = kept
      BY DEF kept
    <2>5. /\ \A cutoff \in purge : cutoff <= now - kept
          /\ \A s \in Sampled \ Raw : s < now - kept /\ (Lookback > 1 => s + Lookback < EndOf(LastRolledDay))
      BY DEF StillThere, kept
    <2>6. /\ \A cutoff \in purge' : cutoff <= now' - kept
          /\ \A s \in Sampled' \ Raw' :
                s < now' - kept /\ (Lookback > 1 => s + Lookback < EndOf(LastRolledDay))
      BY <1>1, <1>5, <2>2, <2>3, <2>5
    <2>7. QED
      BY <1>6, <2>6 DEF StillThere, kept
  <1>8. TotalsFair'
    <2>1. ASSUME NEW S, NEW since, NEW from, NEW to
          PROVE  Summed(S, since, from, to)' = Summed(S, since, from, to)
      BY <1>1 DEF Summed, Read, Added, Gain, Value
    <2>2. ASSUME NEW d \in DOMAIN daily
          PROVE  Summed(Sampled', 0, Midnight(d), EndOf(d)) = Summed(Sampled, 0, Midnight(d), EndOf(d))
      <3>1. d \in Int /\ d + 1 \in Int /\ d + 1 <= Today
        BY <1>2 DEF ConsumptionShape
      <3>2. EndOf(d) \in Int /\ EndOf(d) <= now
        BY <1>2, <3>1, DayIsBefore, MidnightGrows DEF EndOf, Today
      <3>3. ~(now < EndOf(d))
        BY <1>2, <3>2
      <3>4. Read(Sampled', 0, EndOf(d)) = Read(Sampled, 0, EndOf(d))
        BY <1>4, <3>3 DEF Read
      <3>5. QED
        BY <3>4 DEF Summed
    <2>3. ASSUME NEW d \in DOMAIN daily
          PROVE  Ever(<<Midnight(d), EndOf(d)>>)' = Ever(<<Midnight(d), EndOf(d)>>)
      BY <1>1, <2>1, <2>2 DEF Ever
    <2>4. QED
      BY <1>1, <2>3 DEF TotalsFair
  <1>9. QED
    BY <1>7, <1>8

-----------------------------------------------------------------------------
\* One case per action of ConsumptionNext.
LEMMA PageHoldsNext ==
  ASSUME Careful
  PROVE  Books /\ StillThere /\ TotalsFair /\ PurgedInTime /\ [ConsumptionNext]_consumption
            => StillThere' /\ TotalsFair'
  <1> SUFFICES ASSUME Books, StillThere, TotalsFair, PurgedInTime, [ConsumptionNext]_consumption
               PROVE  StillThere' /\ TotalsFair'
    OBVIOUS
  <1>0. Books'
    BY BooksNext
  <1>1. ASSUME UNCHANGED <<life, now, metrics, daily>>,
               \A cutoff \in purge' : cutoff \in purge \/ cutoff <= now - KeptDays * SlotsPerDay
        PROVE  StillThere' /\ TotalsFair'
    BY <1>1, StillThereSame, FairSame
  <1>2. CASE UNCHANGED consumption
    BY <1>1, <1>2 DEF consumption
  <1>3. CASE Poll
    BY <1>3, PageHoldsPoll
  <1>4. CASE RollupStart \/ BackfillStart \/ EnableRetention
    BY <1>1, <1>4 DEF RollupStart, BackfillStart, EnableRetention
  <1>5. CASE Abort
    <2>1. purge' \in {purge, {}} /\ UNCHANGED <<life, now, metrics, daily>>
      BY <1>5 DEF Abort, Idle
    <2>2. QED
      BY <1>1, <2>1
  <1>6. CASE PurgeStart
    <2>1. purge' = {Cutoff} /\ UNCHANGED <<life, now, metrics, daily>> /\ LastRolledDay # NoDay
      BY <1>6 DEF PurgeStart
    <2> DEFINE a == now - KeptDays * SlotsPerDay
               b == Midnight(LastRolledDay + 1)
    <2>2. a \in Int
      BY KeptIsEnough, TodayIsNat DEF Books
    <2>3. b \in Int
      <3>1. DOMAIN daily # {}
        BY <2>1 DEF LastRolledDay
      <3>2. LastRolledDay \in Int
        BY <3>1, LastDayOfSummary DEF Books
      <3>3. LastRolledDay + 1 \in Int
        BY <3>2
      <3>4. QED
        BY <3>3, MidnightGrows
    <2>4. Cutoff = Min({a, b})
      BY DEF Cutoff
    <2> HIDE DEF a, b
    <2>5. Cutoff <= a
      BY <2>2, <2>3, <2>4, LesserOf
    <2>6. QED
      BY <1>1, <2>1, <2>5 DEF a
  <1>7. CASE PurgeBatch
    <2>1. UNCHANGED <<life, now, daily>>
      BY <1>7 DEF PurgeBatch
    <2>2. QED
      BY <1>7, <2>1, StillThereBatch, FairSame
  <1>8. ASSUME NEW d \in 0 .. Today - 1, enabled => LastRolledDay < d,
               UNCHANGED <<life, now, metrics, purge, enabled>>, daily' = RollupDay(d)
        PROVE  StillThere' /\ TotalsFair'
    <2>1. TotalsFair'
      BY <1>8, FairDayAddedUp
    <2>2. DOMAIN daily \subseteq DOMAIN daily'
      BY <1>8 DEF RollupDay
    <2>3. QED
      BY <1>0, <1>8, <2>1, <2>2, StillThereAddedUp
  <1>9. CASE RollupOneDay
    <2>1. rollup # {} /\ UNCHANGED <<life, now, metrics, purge, enabled>> /\ daily' = RollupDay(Min(rollup))
      BY <1>9 DEF RollupOneDay, Idle
    <2>2. rollup \subseteq 0 .. Today - 1 /\ 0 \in Int /\ Today - 1 \in Int
      BY TodayIsNat DEF Books, ConsumptionShape
    <2>3. Min(rollup) \in rollup
      BY <2>1, <2>2, LeastOf
    <2>4. Min(rollup) \in 0 .. Today - 1 /\ (enabled => LastRolledDay < Min(rollup))
      BY <2>2, <2>3 DEF Books, NoHoleBehind
    <2>5. QED
      BY <1>8, <2>1, <2>4
  <1>10. CASE BackfillOneDay
    <2>1. backfill # {} /\ UNCHANGED <<life, now, metrics, purge, enabled>> /\ daily' = RollupDay(Max(backfill))
      BY <1>10 DEF BackfillOneDay, Idle
    <2>2. backfill \subseteq 0 .. Today - 1 /\ 0 \in Int /\ Today - 1 \in Int
      BY TodayIsNat DEF Books, ConsumptionShape
    <2>3. Max(backfill) \in backfill
      BY <2>1, <2>2, GreatestOf
    <2>4. Max(backfill) \in 0 .. Today - 1 /\ ~enabled
      BY <2>1, <2>2, <2>3 DEF Books, NoHoleBehind, ConsumptionShape
    <2>5. QED
      BY <1>8, <2>1, <2>4
  <1>11. QED
    BY <1>2, <1>3, <1>4, <1>5, <1>6, <1>7, <1>9, <1>10 DEF ConsumptionNext

-----------------------------------------------------------------------------
(* What the pages show.                                                    *)
Gained(B, from, to) == SumFunctionOnSet(Gains(B), Read(B, from, to))

LEMMA GainsAreNat ==
  ASSUME life \in Lives, NEW B \in SUBSET Slots
  PROVE  \A s \in B : Gains(B)[s] \in Nat
  <1>1. TAKE s \in B
  <1>2. Added(B, s) \in Nat
    BY AddedIsNat
  <1>3. QED
    BY <1>2 DEF Gains

\* An interval cut in two.
LEMMA GainedSplits ==
  ASSUME life \in Lives, NEW B \in SUBSET Slots, NEW a \in Int, NEW b \in Int, NEW c \in Int,
         a <= b, b <= c
  PROVE  /\ Gained(B, a, b) \in Nat /\ Gained(B, b, c) \in Nat
         /\ Gained(B, a, c) = Gained(B, a, b) + Gained(B, b, c)
  <1> DEFINE one == Read(B, a, b)
             two == Read(B, b, c)
  <1>1. one \in SUBSET B /\ two \in SUBSET B /\ \A s \in B : s \in Int
    BY SlotsAreFinite DEF Read
  <1>2. one \cap two = {} /\ one \union two = Read(B, a, c)
    <2>1. \A s \in B : /\ ~((a <= s /\ s < b) /\ (b <= s /\ s < c))
                       /\ (a <= s /\ s < b) \/ (b <= s /\ s < c) <=> a <= s /\ s < c
      BY <1>1
    <2>2. QED
      BY <2>1 DEF Read
  <1>3. IsFiniteSet(B) /\ \A s \in B : Gains(B)[s] \in Nat
    BY SlotsAreFinite, GainsAreNat
  <1> HIDE DEF one, two
  <1>4. /\ IsFiniteSet(one) /\ SumFunctionOnSet(Gains(B), one) \in Nat
        /\ IsFiniteSet(two) /\ SumFunctionOnSet(Gains(B), two) \in Nat
    BY <1>1, <1>3, SumIsNat
  <1>5. \A s \in one \union two : Gains(B)[s] \in Nat
    BY <1>1, <1>3
  <1>6. SumFunctionOnSet(Gains(B), one \union two)
            = SumFunctionOnSet(Gains(B), one) + SumFunctionOnSet(Gains(B), two)
    BY <1>2, <1>4, <1>5, SumJoin
  <1>7. QED
    BY <1>2, <1>4, <1>6 DEF Gained, one, two

\* What is gained between the samples of an interval is part of what is
\* gained in it.
LEMMA LiveAtMost ==
  ASSUME life \in Lives, NEW B \in SUBSET Slots, NEW from \in Int, NEW to \in Int
  PROVE  Live(B, from, to) \in Nat /\ Live(B, from, to) <= Gained(B, from, to)
  <1>1. Summed(B, from, from, to) \in Nat
        /\ Summed(B, from, from, to) <= SumFunctionOnSet(Gains(B), Read(B, from, to))
    BY SummedAtMost
  <1>2. QED
    BY <1>1 DEF Live, Gained

LEMMA SameRead ==
  ASSUME NEW A, NEW B, NEW from, NEW to, Read(A, from, to) = Read(B, from, to)
  PROVE  Live(A, from, to) = Live(B, from, to)
  BY DEF Live, Summed

LEMMA Ordered ==
  ASSUME NEW a \in Int, NEW b \in Int, a <= b
  PROVE  Max({a, b}) = b /\ Min({a, b}) = a /\ Max({b, a}) = b /\ Min({b, a}) = a
  <1>1. {a, b} = {b, a}
    OBVIOUS
  <1>2. /\ Max({a, b}) \in {a, b} /\ Min({a, b}) \in {a, b}
        /\ \A s \in Int : (Max({a, b}) <= s <=> a <= s /\ b <= s)
                          /\ (s < Min({a, b}) <=> s < a /\ s < b)
    BY OfTwo
  <1>3. Max({a, b}) = b
    BY <1>2
  <1>4. Min({a, b}) = a
    <2>1. Min({a, b}) = b => ~(a < b)
      BY <1>2
    <2>2. QED
      BY <1>2, <2>1
  <1>5. QED
    BY <1>1, <1>3, <1>4

\* The part of a window that is a day's.
Part(w) == [d \in Days |-> Live(Sampled, Max({w[1], Midnight(d)}), Min({w[2], EndOf(d)}))]

LEMMA WithinParts == ASSUME NEW w PROVE WithinDays(w) = SumFunctionOnSet(Part(w), Days \ Holes)
  BY DEF WithinDays, Part, EndOf

\* The samples of an interval are all there: the bounds of a reading of it.
LEMMA LiveWindow ==
  ASSUME Books, NEW w, w[1] \in Nat, w[2] \in Int,
         Read(Raw, w[1], w[2]) = Read(Sampled, w[1], w[2])
  PROVE  WithinDays(w) <= Live(Raw, w[1], w[2]) /\ Live(Raw, w[1], w[2]) <= Ever(w)
  <1> DEFINE l == w[1]
             u == w[2]
             U == Days \ Holes
  <1>1. life \in Lives /\ Sampled \in SUBSET Slots
    BY RawIsSampled DEF Books, ConsumptionShape
  <1>2. Live(Raw, l, u) = Live(Sampled, l, u)
    BY SameRead
  <1>3. \A d \in U : Part(w)[d] = Live(Sampled, Max({l, Midnight(d)}), Min({u, EndOf(d)}))
    BY DEF Part
  <1>4. U \in SUBSET Days /\ l \in Nat /\ l \in Int /\ u \in Int
    OBVIOUS
  <1>5. Ever(w) = Summed(Sampled, 0, l, u)
    BY DEF Ever
  <1>6. WithinDays(w) = SumFunctionOnSet(Part(w), U)
    BY WithinParts
  <1> HIDE DEF l, u, U
  <1>7. SumFunctionOnSet(Part(w), U) <= Live(Sampled, l, u)
    BY <1>1, <1>3, <1>4, DaysWithin
  <1>8. Live(Sampled, l, u) <= Gained(Sampled, l, u)
    BY <1>1, <1>4, LiveAtMost
  <1>9. Summed(Sampled, 0, l, u) = Gained(Sampled, l, u)
    BY <1>1, <1>4, EverAdds DEF Gained
  <1>10. QED
    BY <1>2, <1>5, <1>6, <1>7, <1>8, <1>9 DEF l, u

Whole(F, T) == {d \in DOMAIN daily : F <= d /\ d <= T}

\* The days taken whole stand for what was gained in them, no more and no
\* less than what was gained between the samples of each.
LEMMA WholeDays ==
  ASSUME Books, TotalsFair, NEW F \in Int, NEW T \in Int, F <= T
  PROVE  /\ IsFiniteSet(Whole(F, T)) /\ \A d \in Whole(F, T) : d \in Int /\ daily[d] \in Nat
         /\ SumFunctionOnSet(daily, Whole(F, T)) \in Nat
         /\ SumFunctionOnSet(daily, Whole(F, T)) <= Gained(Sampled, Midnight(F), EndOf(T))
  <1> DEFINE U == Whole(F, T)
             g == Gains(Sampled)
             A == Read(Sampled, Midnight(F), EndOf(T))
  <1>1. life \in Lives /\ Sampled \in SUBSET Slots /\ DOMAIN daily \subseteq 0 .. Today - 1
        /\ Today - 1 \in Int /\ 0 \in Int
    BY RawIsSampled, TodayIsNat DEF Books, ConsumptionShape
  <1>2. IsFiniteSet(U) /\ \A d \in U : d \in Nat /\ daily[d] \in Nat
    <2>1. IsFiniteSet(0 .. Today - 1)
      BY <1>1, FS_Interval
    <2>2. U \subseteq 0 .. Today - 1 /\ U \subseteq DOMAIN daily
      BY <1>1 DEF Whole
    <2> HIDE DEF U
    <2>3. IsFiniteSet(U)
      BY <2>1, <2>2, FS_Subset
    <2>4. \A d \in U : d \in Nat
      BY <2>2
    <2>5. \A d \in U : daily[d] \in Nat
      BY <2>2 DEF TotalsFair
    <2>6. QED
      BY <2>3, <2>4, <2>5
  <1>3. A \in SUBSET Slots /\ A \subseteq Sampled /\ IsFiniteSet(A) /\ Slots \subseteq Nat
        /\ \A s \in A : g[s] \in Nat
    <2>1. A \in SUBSET Slots /\ A \subseteq Sampled
      BY <1>1 DEF Read
    <2> HIDE DEF A
    <2>2. QED
      BY <1>1, <2>1, SlotsAreFinite, GainsAreNat
  <1>4. ASSUME NEW d \in U
        PROVE  daily[d] <= SumFunctionOnSet(g, {s \in A : Day(s) = d})
    <2>1. d \in Int /\ d + 1 \in Int /\ F <= d /\ d + 1 <= T + 1 /\ T + 1 \in Int /\ d \in DOMAIN daily
          /\ 0 \in Int /\ 0 <= d
      BY <1>2 DEF Whole
    <2>2. /\ Midnight(d) \in Int /\ EndOf(d) \in Int /\ Midnight(F) \in Int /\ EndOf(T) \in Int
          /\ Midnight(F) <= Midnight(d) /\ EndOf(d) <= EndOf(T) /\ Midnight(0) <= Midnight(d)
      BY <2>1, MidnightGrows DEF EndOf
    <2>3. \A s \in Slots : Midnight(d) <= s /\ s < EndOf(d) <=> Day(s) = d
      <3>1. TAKE s \in Slots
      <3>2. s \in Int /\ Day(s) \in Int
        BY <1>3, DayOfSlot
      <3>3. (Midnight(d) <= s <=> d <= Day(s)) /\ (s < EndOf(d) <=> Day(s) < d + 1)
        BY <2>1, <3>2, DayIsBefore DEF EndOf
      <3>4. QED
        BY <2>1, <3>2, <3>3
    <2>4. {s \in A : Day(s) = d} = Read(Sampled, Midnight(d), EndOf(d))
      <3> DEFINE m == Midnight(d)
                 e == EndOf(d)
                 a == Midnight(F)
                 z == EndOf(T)
      <3>1. m \in Int /\ e \in Int /\ a \in Int /\ z \in Int /\ a <= m /\ e <= z
        BY <2>2
      <3>2. \A s \in Slots : m <= s /\ s < e <=> Day(s) = d
        BY <2>3
      <3> HIDE DEF m, e, a, z
      <3>3. \A s \in Sampled : (a <= s /\ s < z) /\ Day(s) = d <=> m <= s /\ s < e
        <4>1. TAKE s \in Sampled
        <4>2. s \in Slots /\ s \in Int
          BY <1>1, <1>3
        <4>3. m <= s /\ s < e => a <= s /\ s < z
          BY <3>1, <4>2
        <4>4. QED
          BY <3>2, <4>2, <4>3
      <3>4. {s \in Read(Sampled, a, z) : Day(s) = d} = Read(Sampled, m, e)
        BY <3>3 DEF Read
      <3>5. QED
        BY <3>4 DEF a, z, m, e
    <2>5. Midnight(d) \in Nat
      <3>1. Midnight(0) = 0
        BY ConsumptionAssumption DEF Midnight
      <3>2. QED
        BY <2>2, <3>1
    <2>6. daily[d] <= Summed(Sampled, 0, Midnight(d), EndOf(d))
      <3>1. daily[d] <= Ever(<<Midnight(d), EndOf(d)>>)
        BY <2>1 DEF TotalsFair
      <3>2. QED
        BY <3>1 DEF Ever
    <2>7. Summed(Sampled, 0, Midnight(d), EndOf(d))
              = SumFunctionOnSet(g, Read(Sampled, Midnight(d), EndOf(d)))
      BY <1>1, <2>2, <2>5, EverAdds
    <2>8. QED
      BY <2>4, <2>6, <2>7
  <1> HIDE DEF U, g
  <1>5. /\ \A d \in U : daily[d] \in Nat
        /\ \A d \in U : daily[d] <= SumFunctionOnSet(g, {s \in A : Day(s) = d})
        /\ \A s \in A : g[s] \in Nat
    BY <1>2, <1>3, <1>4
  <1> DEFINE P == {s \in A : Day(s) \in U}
  <1>6. P \subseteq A /\ P \in SUBSET A
    OBVIOUS
  <1> HIDE DEF A
  <1>7. SumFunctionOnSet(daily, U) <= SumFunctionOnSet(g, P)
    BY <1>2, <1>3, <1>5, SumByDay
  <1> HIDE DEF P
  <1>8. SumFunctionOnSet(g, P) <= SumFunctionOnSet(g, A)
    BY <1>3, <1>6, SumOfPart
  <1>9. SumFunctionOnSet(g, P) \in Nat /\ SumFunctionOnSet(g, A) \in Nat
    <2>1. A \in SUBSET A
      OBVIOUS
    <2>2. QED
      BY <1>3, <1>6, <2>1, SumIsNat
  <1>10. SumFunctionOnSet(daily, U) \in Nat
    <2>1. U \in SUBSET U
      OBVIOUS
    <2>2. QED
      BY <1>2, <2>1, SumIsNat
  <1>11. SumFunctionOnSet(daily, U) <= SumFunctionOnSet(g, A)
    <2> DEFINE x == SumFunctionOnSet(daily, U)
               y == SumFunctionOnSet(g, P)
               z == SumFunctionOnSet(g, A)
    <2>1. x \in Nat /\ y \in Nat /\ z \in Nat /\ x <= y /\ y <= z
      BY <1>7, <1>8, <1>9, <1>10
    <2> HIDE DEF x, y, z
    <2>2. x <= z
      BY <2>1
    <2>3. QED
      BY <2>2 DEF x, z
  <1>12. QED
    BY <1>2, <1>10, <1>11 DEF U, g, A, Gained

\* The days before those taken whole, and the days after them, are within
\* what is read live on either side of them.
LEMMA PartBefore ==
  ASSUME Books, NEW w, NEW l \in Int, NEW u \in Int, w = <<l, u>>,
         NEW F \in Int, Midnight(F) <= u
  PROVE  LET V == {d \in Days \ Holes : d < F}
         IN  /\ \A d \in V : Part(w)[d] \in Nat
             /\ SumFunctionOnSet(Part(w), V) <= Live(Sampled, l, Midnight(F))
             /\ Live(Sampled, l, Midnight(F)) \in Nat
  <1> DEFINE V == {d \in Days \ Holes : d < F}
             m == Midnight(F)
  <1>1. life \in Lives /\ Sampled \in SUBSET Slots /\ V \in SUBSET Days
    BY RawIsSampled DEF Books, ConsumptionShape
  <1>2. m \in Int
    BY MidnightGrows
  <1>3. ASSUME NEW d \in V
        PROVE  Part(w)[d] = Live(Sampled, Max({l, Midnight(d)}), Min({m, EndOf(d)}))
    <2>1. d \in Int /\ d + 1 \in Int /\ d + 1 <= F /\ d \in Days
      BY ConsumptionAssumption DEF Days
    <2>2. EndOf(d) \in Int /\ EndOf(d) <= m
      BY <2>1, MidnightGrows DEF EndOf
    <2>3. EndOf(d) <= u
      <3> DEFINE e == EndOf(d)
      <3>1. e \in Int /\ e <= m /\ m <= u
        BY <2>2
      <3> HIDE DEF e, m
      <3>2. e <= u
        BY <1>2, <3>1
      <3>3. QED
        BY <3>2 DEF e
    <2>4. Min({u, EndOf(d)}) = EndOf(d) /\ Min({m, EndOf(d)}) = EndOf(d)
      <3> DEFINE e == EndOf(d)
      <3>1. e \in Int /\ e <= m /\ e <= u
        BY <2>2, <2>3
      <3> HIDE DEF e, m
      <3>2. Min({u, e}) = e /\ Min({m, e}) = e
        BY <1>2, <3>1, Ordered
      <3>3. QED
        BY <3>2 DEF e
    <2>5. Part(w)[d] = Live(Sampled, Max({l, Midnight(d)}), Min({u, EndOf(d)}))
      BY <2>1 DEF Part
    <2>6. QED
      BY <2>4, <2>5
  <1> HIDE DEF V, m
  <1>4. /\ Live(Sampled, l, m) \in Nat
        /\ \A d \in V : Part(w)[d] \in Nat
        /\ SumFunctionOnSet(Part(w), V) <= Live(Sampled, l, m)
    BY <1>1, <1>2, <1>3, DaysWithin
  <1>5. QED
    BY <1>4 DEF V, m

LEMMA PartAfter ==
  ASSUME Books, NEW w, NEW l \in Int, NEW u \in Int, w = <<l, u>>,
         NEW T \in Int, l <= EndOf(T)
  PROVE  LET V == {d \in Days \ Holes : T < d}
         IN  /\ \A d \in V : Part(w)[d] \in Nat
             /\ SumFunctionOnSet(Part(w), V) <= Live(Sampled, EndOf(T), u)
             /\ Live(Sampled, EndOf(T), u) \in Nat
  <1> DEFINE V == {d \in Days \ Holes : T < d}
             m == EndOf(T)
  <1>1. life \in Lives /\ Sampled \in SUBSET Slots /\ V \in SUBSET Days
    BY RawIsSampled DEF Books, ConsumptionShape
  <1>2. m \in Int /\ T + 1 \in Int
    <2>1. T + 1 \in Int
      OBVIOUS
    <2>2. QED
      BY <2>1, MidnightGrows DEF EndOf
  <1>3. ASSUME NEW d \in V
        PROVE  Part(w)[d] = Live(Sampled, Max({m, Midnight(d)}), Min({u, EndOf(d)}))
    <2>1. d \in Int /\ T + 1 <= d /\ d \in Days
      BY ConsumptionAssumption DEF Days
    <2>2. Midnight(d) \in Int /\ m <= Midnight(d)
      BY <1>2, <2>1, MidnightGrows DEF EndOf
    <2>3. Max({l, Midnight(d)}) = Midnight(d) /\ Max({m, Midnight(d)}) = Midnight(d)
      <3> DEFINE e == Midnight(d)
      <3>1. e \in Int /\ m <= e /\ l <= m
        BY <2>2
      <3> HIDE DEF e, m
      <3>2. l <= e
        BY <1>2, <3>1
      <3>3. Max({l, e}) = e /\ Max({m, e}) = e
        BY <1>2, <3>1, <3>2, Ordered
      <3>4. QED
        BY <3>3 DEF e
    <2>4. Part(w)[d] = Live(Sampled, Max({l, Midnight(d)}), Min({u, EndOf(d)}))
      BY <2>1 DEF Part
    <2>5. QED
      BY <2>3, <2>4
  <1> HIDE DEF V, m
  <1>4. /\ Live(Sampled, m, u) \in Nat
        /\ \A d \in V : Part(w)[d] \in Nat
        /\ SumFunctionOnSet(Part(w), V) <= Live(Sampled, m, u)
    BY <1>1, <1>2, <1>3, DaysWithin
  <1>5. QED
    BY <1>4 DEF V, m

LEMMA PartWhole ==
  ASSUME Books, TotalsFair, NEW w, NEW l \in Int, NEW u \in Int, w = <<l, u>>,
         NEW F \in Int, NEW T \in Int, F <= T, T <= LastRolledDay,
         l <= Midnight(F), EndOf(T) <= u
  PROVE  LET V == {d \in Days \ Holes : F <= d /\ d <= T}
         IN  /\ \A d \in V : Part(w)[d] \in Nat
             /\ SumFunctionOnSet(Part(w), V) <= SumFunctionOnSet(daily, Whole(F, T))
  <1> DEFINE V == {d \in Days \ Holes : F <= d /\ d <= T}
  <1>1. life \in Lives /\ Sampled \in SUBSET Slots
    BY RawIsSampled DEF Books, ConsumptionShape
  <1>2. LastRolledDay \in Int
    <2>1. CASE DOMAIN daily = {}
      BY <2>1 DEF LastRolledDay, NoDay
    <2>2. CASE DOMAIN daily # {}
      BY <2>2, LastDayOfSummary DEF Books
    <2>3. QED
      BY <2>1, <2>2
  <1>3. V \subseteq Whole(F, T) /\ V \in SUBSET Whole(F, T)
    <2>1. ASSUME NEW d \in V PROVE d \in Whole(F, T)
      <3>1. d \in Int /\ d \in Days /\ F <= d /\ d <= T /\ d \notin Holes
        BY ConsumptionAssumption DEF Days
      <3>2. d <= LastRolledDay
        BY <1>2, <3>1
      <3>3. QED
        BY <3>1, <3>2 DEF Holes, Whole
    <2>2. QED
      BY <2>1
  <1>4. ASSUME NEW d \in V
        PROVE  Part(w)[d] \in Nat /\ Part(w)[d] <= daily[d] /\ daily[d] \in Nat
    <2>1. d \in Int /\ d + 1 \in Int /\ d + 1 <= T + 1 /\ T + 1 \in Int /\ F <= d /\ d \in Days
          /\ d \in DOMAIN daily
      BY <1>3, ConsumptionAssumption DEF Days, Whole
    <2> DEFINE m == Midnight(d)
               e == EndOf(d)
    <2>2. m \in Int /\ e \in Int /\ Midnight(F) \in Int /\ EndOf(T) \in Int
          /\ Midnight(F) <= m /\ e <= EndOf(T)
      BY <2>1, MidnightGrows DEF EndOf
    <2>3. Part(w)[d] = Live(Sampled, Max({l, m}), Min({u, e}))
      BY <2>1 DEF Part
    <2>4. daily[d] >= Live(Sampled, m, e) /\ daily[d] \in Nat
      BY <2>1 DEF Books, TotalsComplete, TotalsFair
    <2> DEFINE a == Midnight(F)
               z == EndOf(T)
    <2>5. m \in Int /\ e \in Int /\ a \in Int /\ z \in Int /\ a <= m /\ e <= z /\ l <= a /\ z <= u
      BY <2>2
    <2> HIDE DEF m, e, a, z
    <2>6. l <= m /\ e <= u
      BY <2>5
    <2>7. Max({l, m}) = m /\ Min({u, e}) = e
      BY <2>5, <2>6, Ordered
    <2>8. Live(Sampled, m, e) \in Nat
      BY <1>1, <2>5, LiveAtMost
    <2>9. QED
      BY <2>3, <2>4, <2>7, <2>8
  <1>5. /\ IsFiniteSet(Whole(F, T)) /\ \A d \in Whole(F, T) : daily[d] \in Nat
    BY WholeDays
  <1> HIDE DEF V
  <1>6. IsFiniteSet(V)
    BY <1>3, <1>5, FS_Subset
  <1>7. /\ SumFunctionOnSet(Part(w), V) \in Nat /\ SumFunctionOnSet(daily, V) \in Nat
        /\ SumFunctionOnSet(Part(w), V) <= SumFunctionOnSet(daily, V)
    BY <1>4, <1>6, SumGrows
  <1>8. SumFunctionOnSet(daily, V) <= SumFunctionOnSet(daily, Whole(F, T))
    BY <1>3, <1>5, SumOfPart
  <1>9. SumFunctionOnSet(daily, Whole(F, T)) \in Nat
    BY WholeDays
  <1>10. SumFunctionOnSet(Part(w), V) <= SumFunctionOnSet(daily, Whole(F, T))
    <2> DEFINE x == SumFunctionOnSet(Part(w), V)
               y == SumFunctionOnSet(daily, V)
               z == SumFunctionOnSet(daily, Whole(F, T))
    <2>1. x \in Nat /\ y \in Nat /\ z \in Nat /\ x <= y /\ y <= z
      BY <1>7, <1>8, <1>9
    <2> HIDE DEF x, y, z
    <2>2. x <= z
      BY <2>1
    <2>3. QED
      BY <2>2 DEF x, z
  <1>11. QED
    BY <1>4, <1>10 DEF V

\* Days already added up, sewn to samples still there on both sides of them.
LEMMA SewnWindow ==
  ASSUME Books, TotalsFair, NEW w, NEW l \in Nat, NEW u \in Int, w = <<l, u>>,
         NEW F \in Int, NEW T \in Int, F <= T, T <= LastRolledDay,
         l <= Midnight(F), EndOf(T) <= u,
         Read(Raw, l, Midnight(F)) = Read(Sampled, l, Midnight(F)),
         Read(Raw, EndOf(T), u) = Read(Sampled, EndOf(T), u)
  PROVE  LET sewn == SumFunctionOnSet(daily, Whole(F, T))
                     + Live(Raw, l, Midnight(F)) + Live(Raw, EndOf(T), u)
         IN  WithinDays(w) <= sewn /\ sewn <= Ever(w)
  <1> DEFINE a == Midnight(F)
             z == EndOf(T)
             f == Part(w)
             V == Days \ Holes
             Before == {d \in V : d < F}
             In     == {d \in V : F <= d /\ d <= T}
             Later  == {d \in V : T < d}
  <1>1. life \in Lives /\ Sampled \in SUBSET Slots
    BY RawIsSampled DEF Books, ConsumptionShape
  <1>2. a \in Int /\ z \in Int /\ a <= z /\ l <= a /\ z <= u /\ l <= z /\ a <= u /\ l \in Int
    <2>1. T + 1 \in Int /\ F <= T + 1
      OBVIOUS
    <2>2. a \in Int /\ z \in Int /\ a <= z
      BY <2>1, MidnightGrows DEF EndOf
    <2> HIDE DEF a, z
    <2>3. l <= a /\ z <= u
      BY DEF a, z
    <2>4. QED
      BY <2>2, <2>3
  <1>3. Live(Raw, l, a) = Live(Sampled, l, a) /\ Live(Raw, z, u) = Live(Sampled, z, u)
    BY SameRead
  <1>4. /\ \A d \in Before : f[d] \in Nat
        /\ SumFunctionOnSet(f, Before) <= Live(Sampled, l, a)
    BY <1>2, PartBefore
  <1>5. /\ \A d \in Later : f[d] \in Nat
        /\ SumFunctionOnSet(f, Later) <= Live(Sampled, z, u)
    BY <1>2, PartAfter
  <1>6. /\ \A d \in In : f[d] \in Nat
        /\ SumFunctionOnSet(f, In) <= SumFunctionOnSet(daily, Whole(F, T))
    BY <1>2, PartWhole
  <1>7. /\ SumFunctionOnSet(daily, Whole(F, T)) \in Nat
        /\ SumFunctionOnSet(daily, Whole(F, T)) <= Gained(Sampled, a, z)
    BY WholeDays
  <1>8. WithinDays(w) = SumFunctionOnSet(f, V)
    BY WithinParts
  <1>9. /\ V = Before \union (In \union Later)
        /\ Before \cap (In \union Later) = {} /\ In \cap Later = {}
    <2>1. \A d \in V : d \in Int
      BY ConsumptionAssumption DEF Days
    <2>2. \A d \in V : /\ d < F \/ (F <= d /\ d <= T) \/ T < d
                       /\ ~(d < F /\ (F <= d /\ d <= T)) /\ ~(d < F /\ T < d)
                       /\ ~((F <= d /\ d <= T) /\ T < d)
      BY <2>1
    <2> HIDE DEF V
    <2>3. QED
      BY <2>2
  <1>10. IsFiniteSet(V)
    <2>1. LastDay \in Int /\ 0 \in Int
      BY ConsumptionAssumption
    <2>2. IsFiniteSet(Days)
      BY <2>1, FS_Interval DEF Days
    <2>3. QED
      BY <2>2, FS_Subset
  <1>11. Ever(w) = Gained(Sampled, l, u)
    <2>1. Ever(w) = Summed(Sampled, 0, l, u)
      BY DEF Ever
    <2>2. QED
      BY <1>1, <2>1, EverAdds DEF Gained
  <1> HIDE DEF a, z, f, V, Before, In, Later
  <1> DEFINE Rest == In \union Later
  <1>12. \A d \in V : f[d] \in Nat
    BY <1>4, <1>5, <1>6, <1>9
  <1>13. /\ IsFiniteSet(Before) /\ SumFunctionOnSet(f, Before) \in Nat
         /\ IsFiniteSet(In) /\ SumFunctionOnSet(f, In) \in Nat
         /\ IsFiniteSet(Later) /\ SumFunctionOnSet(f, Later) \in Nat
         /\ IsFiniteSet(Rest)
    <2>1. Before \in SUBSET V /\ In \in SUBSET V /\ Later \in SUBSET V /\ Rest \in SUBSET V
      BY <1>9
    <2> HIDE DEF Rest
    <2>2. QED
      BY <1>10, <1>12, <2>1, SumIsNat
  <1>14. SumFunctionOnSet(f, Rest) = SumFunctionOnSet(f, In) + SumFunctionOnSet(f, Later)
    BY <1>5, <1>6, <1>9, <1>13, SumJoin
  <1>15. SumFunctionOnSet(f, V) = SumFunctionOnSet(f, Before) + SumFunctionOnSet(f, Rest)
    <2>1. V = Before \union Rest /\ Before \cap Rest = {} /\ \A d \in Before \union Rest : f[d] \in Nat
      BY <1>9, <1>12
    <2> HIDE DEF Rest
    <2>2. QED
      BY <1>13, <2>1, SumJoin
  <1>16. /\ Gained(Sampled, l, a) \in Nat /\ Gained(Sampled, a, z) \in Nat /\ Gained(Sampled, z, u) \in Nat
         /\ Gained(Sampled, l, z) = Gained(Sampled, l, a) + Gained(Sampled, a, z)
         /\ Gained(Sampled, l, u) = Gained(Sampled, l, z) + Gained(Sampled, z, u)
    <2>1. /\ Gained(Sampled, l, a) \in Nat /\ Gained(Sampled, a, z) \in Nat
          /\ Gained(Sampled, l, z) = Gained(Sampled, l, a) + Gained(Sampled, a, z)
      BY <1>1, <1>2, GainedSplits
    <2>2. /\ Gained(Sampled, z, u) \in Nat
          /\ Gained(Sampled, l, u) = Gained(Sampled, l, z) + Gained(Sampled, z, u)
      BY <1>1, <1>2, GainedSplits
    <2>3. QED
      BY <2>1, <2>2
  <1>17. /\ Live(Sampled, l, a) \in Nat /\ Live(Sampled, l, a) <= Gained(Sampled, l, a)
         /\ Live(Sampled, z, u) \in Nat /\ Live(Sampled, z, u) <= Gained(Sampled, z, u)
    BY <1>1, <1>2, LiveAtMost
  <1> DEFINE whole == SumFunctionOnSet(daily, Whole(F, T))
             head  == Live(Sampled, l, a)
             tail  == Live(Sampled, z, u)
  <1>18. WithinDays(w) <= whole + head + tail
    <2> DEFINE b == SumFunctionOnSet(f, Before)
               i == SumFunctionOnSet(f, In)
               t == SumFunctionOnSet(f, Later)
               r == SumFunctionOnSet(f, Rest)
               v == SumFunctionOnSet(f, V)
    <2>1. /\ b \in Nat /\ i \in Nat /\ t \in Nat /\ b <= head /\ i <= whole /\ t <= tail
          /\ head \in Nat /\ whole \in Nat /\ tail \in Nat /\ r = i + t /\ v = b + r
      BY <1>4, <1>5, <1>6, <1>7, <1>13, <1>14, <1>15, <1>17
    <2> HIDE DEF b, i, t, r, v, whole, head, tail
    <2>2. v <= whole + head + tail
      BY <2>1
    <2>3. QED
      BY <1>8, <2>2 DEF v
  <1>19. whole + head + tail <= Ever(w)
    <2> DEFINE p == Gained(Sampled, l, a)
               q == Gained(Sampled, a, z)
               r == Gained(Sampled, z, u)
               s == Gained(Sampled, l, z)
               e == Gained(Sampled, l, u)
    <2>1. /\ p \in Nat /\ q \in Nat /\ r \in Nat /\ s = p + q /\ e = s + r
          /\ head \in Nat /\ whole \in Nat /\ tail \in Nat
          /\ whole <= q /\ head <= p /\ tail <= r
      BY <1>7, <1>16, <1>17
    <2> HIDE DEF p, q, r, s, e, whole, head, tail
    <2>2. whole + head + tail <= e
      BY <2>1
    <2>3. QED
      BY <1>11, <2>2 DEF e
  <1>20. QED
    BY <1>3, <1>18, <1>19 DEF a, z

\* What is recent enough was not purged, nor what is later than the summary.
LEMMA RecentIsThere ==
  ASSUME Books, StillThere, NEW from \in Int, NEW to, now - KeptDays * SlotsPerDay <= from
  PROVE  Read(Raw, from, to) = Read(Sampled, from, to)
  <1>1. Raw \subseteq Sampled /\ \A s \in Sampled : s \in Int
    BY RawIsSampled DEF Books, Slots
  <1> DEFINE kept == KeptDays * SlotsPerDay
  <1>2. kept \in Int /\ now \in Int
    BY KeptIsEnough, TodayIsNat DEF Books
  <1>3. \A s \in Sampled \ Raw : s < now - kept
    BY DEF StillThere
  <1>4. now - kept <= from
    OBVIOUS
  <1> HIDE DEF kept
  <1>5. \A s \in Sampled : from <= s => s \in Raw
    BY <1>1, <1>2, <1>3, <1>4
  <1>6. QED
    BY <1>1, <1>5 DEF Read

LEMMA LaterIsThere ==
  ASSUME Books, NEW from \in Int, NEW to, enabled => EndOf(LastRolledDay) <= from
  PROVE  Read(Raw, from, to) = Read(Sampled, from, to)
  <1>1. Raw \subseteq Sampled /\ \A s \in Sampled : s \in Int
    BY RawIsSampled DEF Books, Slots
  <1>2. CASE ~enabled
    BY <1>1, <1>2 DEF Books, NothingPurgedYet
  <1>3. CASE enabled
    <2>1. LastRolledDay + 1 \in Int
      BY <1>3, LastDayOfSummary DEF Books, NoHoleBehind
    <2>2. EndOf(LastRolledDay) \in Int /\ EndOf(LastRolledDay) <= from
      BY <1>3, <2>1, MidnightGrows DEF EndOf
    <2>3. \A s \in Sampled : ~(s < EndOf(LastRolledDay)) => s \in Raw
      BY <1>3 DEF Books, NoHoleBehind
    <2> DEFINE end == EndOf(LastRolledDay)
    <2>4. end \in Int /\ end <= from /\ \A s \in Sampled : ~(s < end) => s \in Raw
      BY <2>2, <2>3
    <2> HIDE DEF end
    <2>5. \A s \in Sampled : from <= s => s \in Raw
      BY <1>1, <2>4
    <2>6. QED
      BY <1>1, <2>5 DEF Read
  <1>4. QED
    BY <1>2, <1>3 DEF Books, ConsumptionShape

LEMMA NothingRead ==
  ASSUME NEW A, A \subseteq Int, NEW from \in Int, NEW to \in Int, to <= from
  PROVE  Read(A, from, to) = {} /\ Live(A, from, to) = 0
  <1>1. Read(A, from, to) = {}
    <2>1. \A s \in A : ~(from <= s /\ s < to)
      OBVIOUS
    <2>2. QED
      BY <2>1 DEF Read
  <1>2. Live(A, from, to) = SumFunctionOnSet([s \in {} |-> Added({}, s)], {})
    <2>1. {s \in {} : from <= s} = {}
      OBVIOUS
    <2>2. QED
      BY <1>1, <2>1 DEF Live, Summed
  <1>3. QED
    BY <1>1, <1>2, SumEmpty

LEMMA DaysAgo ==
  ASSUME NEW n \in Int, n <= KeptDays
  PROVE  n * SlotsPerDay \in Int /\ n * SlotsPerDay <= KeptDays * SlotsPerDay
  <1>1. KeptDays \in Int
    BY KeptIsEnough
  <1>2. Midnight(n) \in Int /\ Midnight(n) <= Midnight(KeptDays)
    BY <1>1, MidnightGrows
  <1>3. QED
    BY <1>2 DEF Midnight

\* The windows a page can ask for: they begin in what is kept, or at a
\* midnight; they end now, or at a midnight.
LEMMA WindowKinds ==
  ASSUME Books, NEW w \in Windows
  PROVE  /\ w = <<w[1], w[2]>> /\ w[1] \in Nat /\ w[2] \in Int /\ w[1] < w[2]
         /\ now - KeptDays * SlotsPerDay <= w[1] \/ w[1] = Midnight(Day(w[1]))
         /\ w[2] = now \/ w[2] = Midnight(Day(w[2] - 1) + 1)
  <1>1. now \in Int /\ KeptDays \in Nat /\ DeepestDays + 1 <= KeptDays /\ DeepestDays \in Nat
        /\ KeptDays * SlotsPerDay \in Int /\ LastDay \in Nat /\ SlotsPerDay \in Nat
    BY KeptIsEnough, TodayIsNat, ConsumptionAssumption DEF Books
  <1>2. 0 <= w[1] /\ w[1] < w[2]
    BY DEF Windows
  <1>3. CASE w \in MovingWindows
    <2>1. PICK n \in 1 .. DeepestDays : w = <<now - n * SlotsPerDay, now>>
      BY <1>3 DEF MovingWindows
    <2>2. n \in Int /\ n <= KeptDays
      BY <1>1
    <2>3. n * SlotsPerDay \in Int /\ n * SlotsPerDay <= KeptDays * SlotsPerDay
      BY <2>2, DaysAgo
    <2> DEFINE back == n * SlotsPerDay
               kept == KeptDays * SlotsPerDay
    <2>4. back \in Int /\ kept \in Int /\ back <= kept /\ w[1] = now - back /\ w[2] = now
          /\ w = <<w[1], w[2]>>
      BY <1>1, <2>1, <2>3
    <2> HIDE DEF back, kept
    <2>5. now - kept <= w[1] /\ w[1] \in Nat /\ w[2] \in Int
      BY <1>1, <1>2, <2>4
    <2>6. QED
      BY <1>2, <2>4, <2>5 DEF kept
  <1>4. CASE w \in DateRanges
    <2>1. PICK a \in Days, b \in Days : w = <<Midnight(a), Midnight(b + 1)>>
      BY <1>4 DEF DateRanges
    <2>2. a \in Int /\ b \in Int /\ b + 1 \in Int /\ a + 1 \in Int
      BY <1>1 DEF Days
    <2>3. Midnight(a) \in Int /\ Midnight(b + 1) \in Int /\ w = <<w[1], w[2]>>
          /\ w[1] = Midnight(a) /\ w[2] = Midnight(b + 1)
      BY <2>1, <2>2, MidnightGrows
    <2>4. Day(Midnight(a)) = a
      <3>1. SlotsPerDay \in Nat \ {0}
        BY ConsumptionAssumption
      <3>2. a <= Day(Midnight(a)) /\ Day(Midnight(a)) \in Int
        BY <2>2, <2>3, DayIsBefore, DayOfSlot
      <3>3. Midnight(a) < Midnight(a + 1)
        <4>1. Midnight(a + 1) = Midnight(a) + SlotsPerDay
          BY <2>2, MidnightGrows
        <4>2. QED
          BY <2>3, <3>1, <4>1
      <3>4. Day(Midnight(a)) < a + 1
        BY <2>2, <2>3, <3>3, DayIsBefore
      <3>5. QED
        BY <2>2, <3>2, <3>4
    <2>5. Day(Midnight(b + 1) - 1) = b
      <3> DEFINE z == Midnight(b + 1)
                 m == Midnight(b)
      <3>1. z \in Int /\ m \in Int /\ z = m + SlotsPerDay /\ SlotsPerDay \in Nat \ {0}
        BY <2>2, MidnightGrows, ConsumptionAssumption
      <3> HIDE DEF z, m
      <3>2. z - 1 \in Int /\ z - 1 < z /\ m <= z - 1
        BY <3>1
      <3>3. z - 1 < Midnight(b + 1) /\ Midnight(b) <= z - 1
        BY <3>2 DEF z, m
      <3>4. Day(z - 1) < b + 1 /\ b <= Day(z - 1) /\ Day(z - 1) \in Int
        BY <2>2, <3>2, <3>3, DayIsBefore, DayOfSlot
      <3>5. Day(z - 1) = b
        BY <2>2, <3>4
      <3>6. QED
        BY <3>5 DEF z
    <2>6. w[1] = Midnight(Day(w[1])) /\ w[2] = Midnight(Day(w[2] - 1) + 1)
      BY <2>3, <2>4, <2>5
    <2>7. w[1] \in Nat
      BY <1>2, <2>3
    <2>8. QED
      BY <1>2, <2>3, <2>6, <2>7
  <1>5. CASE w = <<0, now>>
    <2>1. Midnight(0) = 0 /\ Day(0) = 0
      BY ConsumptionAssumption DEF Midnight, Day
    <2>2. QED
      BY <1>1, <1>2, <1>5, <2>1
  <1>6. QED
    BY <1>3, <1>4, <1>5 DEF Windows

LEMMA PageAddsUp ==
  ASSUME Books, StillThere, TotalsFair, NEW w \in Windows
  PROVE  WithinDays(w) <= Shown(w) /\ Shown(w) <= Ever(w)
  <1> DEFINE l == w[1]
             u == w[2]
             kept == KeptDays * SlotsPerDay
             first == FirstFullDay(l)
             last == Min({Day(u - 1), LastRolledDay})
  <1>1. /\ w = <<l, u>> /\ l \in Nat /\ u \in Int /\ l < u /\ l \in Int /\ u - 1 \in Int
        /\ now - kept <= l \/ l = Midnight(Day(l))
        /\ u = now \/ u = Midnight(Day(u - 1) + 1)
    BY WindowKinds
  <1>2. /\ kept \in Int /\ now \in Int /\ Today \in Nat
        /\ Raw \subseteq Int /\ Sampled \subseteq Int
        /\ Raw \in SUBSET Slots /\ Sampled \in SUBSET Slots
    BY KeptIsEnough, TodayIsNat, RawIsSampled DEF Books, Slots
  <1>3. LastRolledDay \in Int /\ LastRolledDay < Today /\ (LastRolledDay = NoDay => ~enabled)
    <2>1. CASE DOMAIN daily = {}
      BY <1>2, <2>1 DEF LastRolledDay, NoDay, Books, NoHoleBehind
    <2>2. CASE DOMAIN daily # {}
      <3>1. LastRolledDay \in DOMAIN daily /\ LastRolledDay \in Int /\ LastRolledDay < Today
        BY <2>2, LastDayOfSummary DEF Books
      <3>2. LastRolledDay # NoDay
        BY <3>1 DEF Books, ConsumptionShape, NoDay
      <3>3. QED
        BY <3>1, <3>2
    <2>3. QED
      BY <2>1, <2>2
  <1>4. CASE w = <<now - SlotsPerDay, now>>
    <2>1. Shown(w) = Live(Raw, l, u)
      BY <1>4 DEF Shown
    <2>2. now - kept <= l
      <3>1. l = now - SlotsPerDay /\ 1 * SlotsPerDay = SlotsPerDay /\ 1 \in Int /\ 1 <= KeptDays
        BY <1>4, KeptIsEnough, ConsumptionAssumption
      <3>2. SlotsPerDay \in Int /\ SlotsPerDay <= kept
        BY <3>1, DaysAgo
      <3> HIDE DEF kept
      <3>3. QED
        BY <1>2, <3>1, <3>2
    <2>3. Read(Raw, l, u) = Read(Sampled, l, u)
      <3> HIDE DEF l, u
      <3>1. QED
        BY <1>1, <2>2, RecentIsThere
    <2>4. QED
      BY <1>1, <2>1, <2>3, LiveWindow
  <1>5. CASE w # <<now - SlotsPerDay, now>>
    <2>1. Shown(w) = AggregateViaDaily(l, u)
      BY <1>5 DEF Shown
    <2>2. /\ Day(l) \in Int /\ Day(l) + 1 \in Int /\ Midnight(Day(l)) \in Int /\ Midnight(Day(l)) <= l
          /\ l < Midnight(Day(l) + 1) /\ Midnight(Day(l) + 1) \in Int
          /\ Day(u - 1) \in Int /\ Midnight(Day(u - 1)) <= u - 1 /\ u - 1 < Midnight(Day(u - 1) + 1)
      <3> HIDE DEF l, u
      <3>1. Day(l) \in Int /\ Day(l) + 1 \in Int /\ Midnight(Day(l)) <= l /\ l < Midnight(Day(l) + 1)
            /\ Day(u - 1) \in Int /\ Midnight(Day(u - 1)) <= u - 1 /\ u - 1 < Midnight(Day(u - 1) + 1)
        BY <1>1, DayOfSlot
      <3>2. QED
        BY <3>1, MidnightGrows
    <2>3. /\ first \in Int /\ Midnight(first) \in Int /\ l <= Midnight(first) /\ Day(l) <= first
          /\ first <= Day(l) + 1
          /\ ~(l > Midnight(Day(l))) => first = Day(l) /\ l = Midnight(first)
          /\ l > Midnight(Day(l)) => now - kept <= l
      <3>1. CASE l > Midnight(Day(l))
        <4>1. first = Day(l) + 1
          BY <3>1 DEF FirstFullDay
        <4>2. l # Midnight(Day(l))
          <5> DEFINE m == Midnight(Day(l))
          <5>1. l \in Int /\ m \in Int /\ l > m
            BY <1>1, <2>2, <3>1
          <5> HIDE DEF l, m
          <5>2. l # m
            BY <5>1
          <5>3. QED
            BY <5>2 DEF m
        <4> DEFINE m == Midnight(Day(l) + 1)
                   d == Day(l)
        <4>3. m \in Int /\ l < m /\ l \in Int /\ d \in Int /\ first = d + 1 /\ Midnight(first) = m
          BY <1>1, <2>2, <4>1
        <4> HIDE DEF l, m, d, first, kept
        <4>4. l <= m /\ d <= first /\ first <= d + 1 /\ first \in Int
          BY <4>3
        <4>5. QED
          BY <1>1, <3>1, <4>2, <4>3, <4>4 DEF d
      <3>2. CASE ~(l > Midnight(Day(l)))
        <4>1. first = Day(l)
          BY <3>2 DEF FirstFullDay
        <4> DEFINE m == Midnight(Day(l))
                   d == Day(l)
        <4>2. m \in Int /\ m <= l /\ ~(l > m) /\ l \in Int /\ d \in Int /\ first = d /\ Midnight(first) = m
          BY <1>1, <2>2, <3>2, <4>1
        <4> HIDE DEF l, m, d, first, kept
        <4>3. l = m /\ l <= m /\ d <= first /\ first <= d + 1 /\ first \in Int
          BY <4>2
        <4>4. QED
          BY <3>2, <4>2, <4>3 DEF d
      <3>3. QED
        BY <3>1, <3>2
    <2>4. /\ last \in {Day(u - 1), LastRolledDay} /\ last \in Int /\ last + 1 \in Int
          /\ last <= Day(u - 1) /\ last <= LastRolledDay
      <3> DEFINE d == Day(u - 1)
      <3>1. d \in Int
        BY <2>2
      <3> HIDE DEF d
      <3>2. Min({d, LastRolledDay}) \in {d, LastRolledDay} /\ Min({d, LastRolledDay}) \in Int
            /\ Min({d, LastRolledDay}) <= d /\ Min({d, LastRolledDay}) <= LastRolledDay
        BY <1>3, <3>1, OfTwo, LesserOf
      <3> DEFINE t == Min({d, LastRolledDay})
      <3>3. t = last
        BY DEF d
      <3> HIDE DEF t
      <3>4. t + 1 \in Int
        BY <3>2 DEF t
      <3>5. QED
        BY <3>2, <3>3, <3>4 DEF t, d
    <2>5. CASE LastRolledDay = NoDay \/ last < first
      <3>1. Shown(w) = Live(Raw, l, u)
        BY <2>1, <2>5 DEF AggregateViaDaily
      <3>2. Read(Raw, l, u) = Read(Sampled, l, u)
        <4>1. CASE now - kept <= l
          <5> HIDE DEF l, u
          <5>1. QED
            BY <1>1, <4>1, RecentIsThere
        <4>2. CASE ~(now - kept <= l)
          <5>1. l = Midnight(Day(l)) /\ first = Day(l)
            BY <1>1, <2>3, <4>2
          <5>2. enabled => LastRolledDay + 1 <= Day(l)
            <6> SUFFICES ASSUME enabled PROVE LastRolledDay + 1 <= Day(l)
              OBVIOUS
            <6>1. last < Day(l)
              BY <1>3, <2>5, <5>1
            <6>2. Day(l) <= Day(u - 1)
              <7> DEFINE d == Day(u - 1) + 1
              <7>1. u - 1 < Midnight(d) /\ l <= u - 1 /\ d \in Int /\ Midnight(d) \in Int
                <8>1. d \in Int
                  BY <2>2
                <8>2. l <= u - 1
                  BY <1>1
                <8>3. Midnight(d) \in Int
                  BY <8>1, MidnightGrows
                <8>4. QED
                  BY <2>2, <8>1, <8>2, <8>3
              <7> DEFINE m == Midnight(d)
              <7>2. l < m
                <8>1. u - 1 \in Int /\ l \in Int /\ m \in Int /\ u - 1 < m /\ l <= u - 1
                  BY <1>1, <7>1
                <8> HIDE DEF l, u, m
                <8>2. QED
                  BY <8>1
              <7>3. Day(l) < d
                <8> HIDE DEF l, d
                <8>1. QED
                  BY <1>1, <7>1, <7>2, DayIsBefore
              <7>4. QED
                BY <2>2, <7>3
            <6>3. last = LastRolledDay
              BY <2>2, <2>4, <6>1, <6>2
            <6>4. QED
              BY <1>3, <2>2, <6>1, <6>3
          <5>3. enabled => EndOf(LastRolledDay) <= l
            <6>1. LastRolledDay + 1 \in Int
              BY <1>3
            <6>2. enabled => Midnight(LastRolledDay + 1) <= Midnight(Day(l))
              BY <2>2, <5>2, <6>1, MidnightGrows
            <6>3. QED
              BY <5>1, <6>2 DEF EndOf
          <5> HIDE DEF l, u
          <5>4. QED
            BY <1>1, <5>3, LaterIsThere
        <4>3. QED
          BY <4>1, <4>2
      <3>3. QED
        BY <1>1, <3>1, <3>2, LiveWindow
    <2>6. CASE ~(LastRolledDay = NoDay \/ last < first)
      <3> DEFINE a == Midnight(first)
                 z == EndOf(last)
      <3>1. first <= last
        BY <2>3, <2>4, <2>6
      <3>2. a \in Int /\ z \in Int /\ a <= z /\ l <= a
        <4>1. first <= last + 1
          <5> HIDE DEF first, last
          <5>1. QED
            BY <2>3, <2>4, <3>1
        <4> HIDE DEF first, last, l
        <4>2. Midnight(first) <= Midnight(last + 1) /\ Midnight(last + 1) \in Int
          BY <2>3, <2>4, <4>1, MidnightGrows
        <4>3. QED
          BY <2>3, <4>2 DEF EndOf
      <3>3. z <= u
        <4>1. CASE u = Midnight(Day(u - 1) + 1)
          <5> DEFINE d == Day(u - 1) + 1
          <5>1. d \in Int /\ last + 1 <= d
            <6> HIDE DEF last
            <6>1. QED
              BY <2>2, <2>4
          <5> HIDE DEF last, d
          <5>2. Midnight(last + 1) <= Midnight(d)
            BY <2>4, <5>1, MidnightGrows
          <5>3. QED
            BY <4>1, <5>2 DEF EndOf, d
        <4>2. CASE u = now
          <5>1. last + 1 <= Today /\ last + 1 \in Int /\ Today \in Int
            <6> HIDE DEF last
            <6>1. QED
              BY <1>2, <1>3, <2>4
          <5>2. Midnight(last + 1) <= now
            <6> HIDE DEF last
            <6>1. last + 1 <= Day(now)
              BY <5>1 DEF Today
            <6>2. QED
              BY <1>2, <5>1, <6>1, DayIsBefore
          <5>3. QED
            BY <4>2, <5>2 DEF EndOf
        <4>3. QED
          BY <1>1, <4>1, <4>2
      <3>4. /\ Min({a, u}) = a /\ Max({l, z}) = z
        <4>1. a \in Int /\ z \in Int /\ u \in Int /\ l \in Int /\ a <= u /\ l <= z
          <5>1. a \in Int /\ z \in Int /\ u \in Int /\ l \in Int /\ a <= z /\ z <= u /\ l <= a
            BY <1>1, <3>2, <3>3
          <5> HIDE DEF a, z, u, l
          <5>2. QED
            BY <5>1
        <4> HIDE DEF a, z, u, l
        <4>2. QED
          BY <4>1, Ordered
      <3>5. Read(Raw, l, a) = Read(Sampled, l, a)
            /\ (IF l > Midnight(Day(l)) THEN Live(Raw, l, a) ELSE 0) = Live(Raw, l, a)
        <4>1. CASE l > Midnight(Day(l))
          <5>1. now - kept <= l
            BY <2>3, <4>1
          <5>2. Read(Raw, l, a) = Read(Sampled, l, a)
            <6> HIDE DEF l, a
            <6>1. QED
              BY <1>1, <5>1, RecentIsThere
          <5>3. QED
            BY <4>1, <5>2
        <4>2. CASE ~(l > Midnight(Day(l)))
          <5>1. l = a
            BY <2>3, <4>2
          <5>2. a \in Int /\ a <= a
            <6> HIDE DEF a
            <6>1. QED
              BY <3>2
          <5> HIDE DEF l, a
          <5>3. Read(Raw, a, a) = {} /\ Live(Raw, a, a) = 0 /\ Read(Sampled, a, a) = {}
            BY <1>2, <5>2, NothingRead
          <5>4. QED
            BY <4>2, <5>1, <5>3
        <4>3. QED
          BY <4>1, <4>2
      <3>6. Read(Raw, z, u) = Read(Sampled, z, u)
        <4>1. CASE last = LastRolledDay
          <5>1. EndOf(LastRolledDay) = z
            BY <4>1
          <5>2. EndOf(LastRolledDay) <= z
            <6> HIDE DEF z
            <6>1. QED
              BY <3>2, <5>1
          <5> HIDE DEF z, u
          <5>3. QED
            BY <3>2, <5>2, LaterIsThere
        <4>2. CASE last = Day(u - 1)
          <5>1. u - 1 < z
            BY <2>2, <4>2 DEF EndOf
          <5>2. u <= z
            <6> HIDE DEF z, u
            <6>1. QED
              BY <1>1, <3>2, <5>1
          <5> HIDE DEF z, u
          <5>3. Read(Raw, z, u) = {} /\ Read(Sampled, z, u) = {}
            BY <1>1, <1>2, <3>2, <5>2, NothingRead
          <5>4. QED
            BY <5>3
        <4>3. QED
          BY <2>4, <4>1, <4>2
      <3>7. Shown(w) = SumFunctionOnSet(daily, Whole(first, last))
                       + (IF l > Midnight(Day(l)) THEN Live(Raw, l, Min({a, u})) ELSE 0)
                       + Live(Raw, Max({l, z}), u)
        BY <2>1, <2>6 DEF AggregateViaDaily, FirstFullDay, Whole, EndOf
      <3>8. Shown(w) = SumFunctionOnSet(daily, Whole(first, last)) + Live(Raw, l, a) + Live(Raw, z, u)
        BY <3>4, <3>5, <3>7
      <3> HIDE DEF l, u, first, last
      <3>9. LET sewn == SumFunctionOnSet(daily, Whole(first, last))
                        + Live(Raw, l, Midnight(first)) + Live(Raw, EndOf(last), u)
            IN  WithinDays(w) <= sewn /\ sewn <= Ever(w)
        BY <1>1, <2>3, <2>4, <3>1, <3>2, <3>3, <3>5, <3>6, SewnWindow
      <3>10. QED
        BY <3>8, <3>9
    <2>7. QED
      BY <2>5, <2>6
  <1>6. QED
    BY <1>4, <1>5

\* If no purge reaches into the look-back of the days still to be added up,
\* no page ever shows more than the counter gained in its window, nor less
\* than what was gained within its days: for any life of the device, windows
\* and retention of any length, batches of any size, and passes that fail at
\* any point any number of times.
THEOREM PagesAddUp ==
  ASSUME Careful
  PROVE  ConsumptionSpec /\ []PurgedInTime => []WindowsAddUp
  <1>1. ConsumptionInit => StillThere /\ TotalsFair
    <2> SUFFICES ASSUME ConsumptionInit PROVE StillThere /\ TotalsFair
      OBVIOUS
    <2>1. Sampled = {} /\ purge = {} /\ DOMAIN daily = {}
      BY DEF ConsumptionInit, Sampled, Slots, Idle
    <2>2. QED
      BY <2>1 DEF StillThere, TotalsFair
  <1>2. Books /\ StillThere /\ TotalsFair /\ PurgedInTime /\ [ConsumptionNext]_consumption
            => StillThere' /\ TotalsFair'
    BY PageHoldsNext
  <1>3. Books /\ StillThere /\ TotalsFair => WindowsAddUp
    BY PageAddsUp DEF WindowsAddUp
  <1>4. ConsumptionSpec => []Books
    BY BooksAlways
  <1>5. QED
    BY <1>1, <1>2, <1>3, <1>4, PTL DEF ConsumptionSpec
=============================================================================
