---------------------------- MODULE AccessProofs ----------------------------
(***************************************************************************)
(* Proofs about Membership and Access for any users, groups, adapters,     *)
(* number of requests and any mix of operations and save failures.         *)
(*                                                                         *)
(* The first part is about Membership: its inductive invariant IInv says   *)
(* how the two stores and files relate for a user who is not disturbed.    *)
(* The second part is about Access: decisions about adapters follow the    *)
(* groups' Members, and those which no change crosses are right.  It rests *)
(* on IInv, since steps of Access are steps of Membership or leave its     *)
(* state alone.                                                            *)
(***************************************************************************)
EXTENDS Access, TLAPS

-----------------------------------------------------------------------------
(* Membership.                                                             *)


\* What holds of a user the code's lack of coordination has not reached.
UserInv(u) ==
    /\ Idle(u) => Agree(u)
    /\ \A r \in Requests : BusyOn(r, u) => HalfDone(r, u, req[r].group)
    /\ \A r, s \in Requests : BusyOn(r, u) /\ BusyOn(s, u) => r = s

\* A copy of a group that is to be written back is current but for who was edited.
CopiesCurrent ==
    \A r \in Requests : req[r].at = "groupWrite" =>
        \A u \in Users \ edited[r] : u \in req[r].members <=> u \in MembersOf(req[r].group)

IInv ==
    /\ TypeOK
    /\ CopiesCurrent
    /\ \A u \in Users \ disturbed : UserInv(u) /\ OnDisk(u)

-----------------------------------------------------------------------------

USE DEF Waiting, AddSteps, RemoveSteps, UserSteps, Steps, UserStore, GroupStore, Stores

\* What a request becomes when it moves on, returns, or takes a copy.
LEMMA GotoEffect ==
    ASSUME TypeOK, NEW r \in Requests, NEW step \in Steps, Goto(r, step)
    PROVE  /\ req' \in [Requests -> Request]
           /\ \A s \in Requests \ {r} : req'[s] = req[s]
           /\ req'[r].at = step
           /\ req'[r].user = req[r].user
           /\ req'[r].group = req[r].group
           /\ req'[r].groups = req[r].groups
  BY DEF TypeOK, Request, Goto

LEMMA ReturnEffect ==
    ASSUME TypeOK, NEW r \in Requests, NEW result \in Waiting, Return(r, result)
    PROVE  /\ req' \in [Requests -> Request]
           /\ \A s \in Requests \ {r} : req'[s] = req[s]
           /\ req'[r].at = result
           /\ req'[r].user = req[r].user
           /\ req'[r].group = req[r].group
  <1> DEFINE q == [req[r] EXCEPT !.at = result, !.groups = {}, !.members = {}]
  <1>1. req[r] \in Request
    BY DEF TypeOK
  <1>2. q \in Request /\ q.at = result /\ q.user = req[r].user /\ q.group = req[r].group
    BY <1>1 DEF Request
  <1>3. req' = [req EXCEPT ![r] = q]
    BY DEF Return, TypeOK
  <1> HIDE DEF q
  <1> QED BY <1>2, <1>3 DEF TypeOK

LEMMA CopyEffect ==
    ASSUME TypeOK, NEW r \in Requests, NEW step \in Steps, NEW gs \in SUBSET Groups,
           TakeGroups(r, step, gs)
    PROVE  /\ req' \in [Requests -> Request]
           /\ \A s \in Requests \ {r} : req'[s] = req[s]
           /\ req'[r].at = step
           /\ req'[r].user = req[r].user
           /\ req'[r].group = req[r].group
           /\ req'[r].groups = gs
  <1> DEFINE q == [req[r] EXCEPT !.at = step, !.groups = gs]
  <1>1. req[r] \in Request
    BY DEF TypeOK
  <1>2. /\ q \in Request /\ q.at = step /\ q.groups = gs
        /\ q.user = req[r].user /\ q.group = req[r].group
    BY <1>1 DEF Request
  <1>3. req' = [req EXCEPT ![r] = q]
    BY DEF TypeOK, TakeGroups
  <1> HIDE DEF q
  <1> QED BY <1>2, <1>3 DEF TypeOK

LEMMA MembersEffect ==
    ASSUME TypeOK, NEW r \in Requests, NEW step \in Steps, NEW us \in SUBSET Users,
           TakeMembers(r, step, us)
    PROVE  /\ req' \in [Requests -> Request]
           /\ \A s \in Requests \ {r} : req'[s] = req[s]
           /\ req'[r].at = step
           /\ req'[r].user = req[r].user
           /\ req'[r].group = req[r].group
           /\ req'[r].members = us
  <1> DEFINE q == [req[r] EXCEPT !.at = step, !.members = us]
  <1>1. req[r] \in Request
    BY DEF TypeOK
  <1>2. /\ q \in Request /\ q.at = step /\ q.members = us
        /\ q.user = req[r].user /\ q.group = req[r].group
    BY <1>1 DEF Request
  <1>3. req' = [req EXCEPT ![r] = q]
    BY DEF TypeOK, TakeMembers
  <1> HIDE DEF q
  <1> QED BY <1>2, <1>3 DEF TypeOK

LEMMA RequestFields ==
    ASSUME TypeOK, NEW r \in Requests
    PROVE  /\ req[r].at \in Steps /\ req[r].user \in Users /\ req[r].group \in Groups
           /\ req[r].groups \in SUBSET Groups /\ req[r].members \in SUBSET Users
  BY DEF TypeOK, Request

LEMMA StoreTypes ==
    ASSUME TypeOK
    PROVE  /\ \A u \in Users : users[u] # Absent => users[u] \in SUBSET Groups
           /\ \A g \in Groups : groups[g] # Absent => groups[g] \in SUBSET Users
           /\ \A u \in Users : GroupsOf(u) \in SUBSET Groups
           /\ \A g \in Groups : MembersOf(g) \in SUBSET Users
  BY DEF TypeOK, GroupsOf, MembersOf

LEMMA DisturbType ==
    ASSUME TypeOK, NEW r \in Requests, NEW u \in Users, NEW saved, Disturb(r, u, saved)
    PROVE  disturbed' \in SUBSET Users /\ disturbed \subseteq disturbed'
  BY DEF Disturb, TypeOK

-----------------------------------------------------------------------------

LEMMA InitTypeOK == Init => TypeOK
  BY DEF Init, TypeOK, Request

\* A handler's step moves its own request only, which stays about its user.
LEMMA HandlerRequest ==
    ASSUME TypeOK, NEW r \in Requests, Handler(r) 
    PROVE  /\ req' \in [Requests -> Request]
           /\ \A s \in Requests \ {r} : req'[s] = req[s]
           /\ req'[r].user = req[r].user
  <1> DEFINE u == req[r].user
             g == req[r].group
             gs == req[r].groups
             us == req[r].members
  <1>u. u \in Users /\ g \in Groups /\ gs \in SUBSET Groups /\ us \in SUBSET Users
    BY RequestFields
  <1> HIDE DEF u, g, gs, us
  <1>1. CASE AddMember(r)
    BY <1>1, GotoEffect, ReturnEffect DEF AddMember, TypeOK
  <1>2. CASE AddGetUser(r)
    <2>1. users[u] = Absent \/ users[u] \cup {g} \in SUBSET Groups
      BY <1>u, StoreTypes
    <2>2. CASE users[u] # Absent /\ g \notin users[u]
      BY <1>2, <2>1, <2>2, CopyEffect DEF AddGetUser, u, g
    <2>3. CASE users[u] = Absent \/ g \in users[u]
      BY <1>2, <2>3, GotoEffect, ReturnEffect DEF AddGetUser, u, g
    <2> QED BY <2>2, <2>3
  <1>3. CASE AddWriteUser(r)
    BY <1>3, GotoEffect, ReturnEffect DEF AddWriteUser
  <1>4. CASE AddRollback(r)
    BY <1>4, ReturnEffect DEF AddRollback
  <1>5. CASE RemoveMember(r)
    BY <1>5, GotoEffect, ReturnEffect DEF RemoveMember
  <1>6. CASE RemoveGetUser(r)
    <2>1. users[req[r].user] \ {req[r].group} \in SUBSET Groups
              \/ req[r].group \notin GroupsOf(req[r].user)
      BY <1>u, StoreTypes DEF u, g, GroupsOf
    <2> QED BY <1>6, <2>1, ReturnEffect, CopyEffect DEF RemoveGetUser
  <1>7. CASE RemoveWriteUser(r)
    BY <1>7, ReturnEffect DEF RemoveWriteUser
  <1>8. CASE GetUserForUpdate(r)
    BY <1>8, <1>u, ReturnEffect, CopyEffect, StoreTypes DEF GetUserForUpdate, u
  <1>9. CASE WriteUser(r)
    BY <1>9, ReturnEffect DEF WriteUser, TypeOK
  <1>10. CASE GetGroupForUpdate(r)
    BY <1>10, <1>u, ReturnEffect, MembersEffect, StoreTypes DEF GetGroupForUpdate, g
  <1>11. CASE WriteGroup(r)
    BY <1>11, ReturnEffect DEF WriteGroup, TypeOK
  <1> QED BY <1>1, <1>2, <1>3, <1>4, <1>5, <1>6, <1>7, <1>8, <1>9, <1>10, <1>11
            DEF Handler

\* A store call leaves a file as it was or writes what the memory then holds.
LEMMA HandlerSaves ==
    ASSUME NEW r \in Requests, Handler(r)
    PROVE  /\ usersFile' = usersFile \/ usersFile' = users'
           /\ groupsFile' = groupsFile \/ groupsFile' = groups'
  <1>1. CASE AddMember(r) \/ RemoveMember(r) \/ AddRollback(r) \/ WriteGroup(r)
    BY <1>1 DEF AddMember, RemoveMember, AddRollback, WriteGroup, SaveGroups
  <1>2. CASE AddWriteUser(r) \/ RemoveWriteUser(r) \/ WriteUser(r)
    BY <1>2 DEF AddWriteUser, RemoveWriteUser, WriteUser, SaveUsers
  <1>3. CASE AddGetUser(r) \/ RemoveGetUser(r) \/ GetUserForUpdate(r)
                \/ GetGroupForUpdate(r)
    BY <1>3 DEF AddGetUser, RemoveGetUser, GetUserForUpdate, GetGroupForUpdate
  <1> QED BY <1>1, <1>2, <1>3 DEF Handler

\* What UpdateGroup writes back are users.
LEMMA CopyNowType ==
    ASSUME TypeOK, NEW r \in Requests
    PROVE  edited[r] \in SUBSET Users /\ \A us \in CopyNow(r) : us \in SUBSET Users
  <1>1. edited[r] \in SUBSET Users
    BY DEF TypeOK
  <1> QED BY <1>1, RequestFields DEF CopyNow

\* One request's store call keeps the types of what it changes.
LEMMA HandlerTypeOK ==
    ASSUME TypeOK, NEW r \in Requests, Handler(r), edited' \in [Requests -> SUBSET Users]
    PROVE  TypeOK'
  <1> DEFINE u == req[r].user
             g == req[r].group
             gs == req[r].groups
             us == req[r].members
  <1>0. u \in Users /\ g \in Groups /\ gs \in SUBSET Groups /\ us \in SUBSET Users
    BY RequestFields
  <1> HIDE DEF u, g, gs, us
  <1>1. req' \in [Requests -> Request]
    BY HandlerRequest
  <1>2. users' \in [Users -> {Absent} \cup SUBSET Groups]
    <2>1. \/ users' = users
          \/ PutUser(u, gs)
          \/ g \in GroupsOf(u) /\ PutUser(u, users[u] \ {g})
      BY DEF Handler, u, g, gs, AddMember, AddGetUser, AddWriteUser, AddRollback,
             RemoveMember, RemoveGetUser, RemoveWriteUser, GetUserForUpdate,
             WriteUser, GetGroupForUpdate, WriteGroup
    <2> QED BY <2>1, <1>0, StoreTypes DEF TypeOK, PutUser, GroupsOf
  <1>3. groups' \in [Groups -> {Absent} \cup SUBSET Users]
    <2>1. \/ groups' = groups
          \/ groups[g] # Absent /\ PutGroup(g, groups[g] \cup {u})
          \/ groups[g] # Absent /\ PutGroup(g, groups[g] \ {u})
          \/ \E new \in CopyNow(r) : PutGroup(g, new)
      BY DEF Handler, u, g, AddMember, AddGetUser, AddWriteUser, AddRollback,
             RemoveMember, RemoveGetUser, RemoveWriteUser, GetUserForUpdate,
             WriteUser, GetGroupForUpdate, WriteGroup, IsMember
    <2> QED BY <2>1, <1>0, StoreTypes, CopyNowType DEF TypeOK, PutGroup
  <1>4. disturbed' \in SUBSET Users
    <2>1. \/ disturbed' = disturbed
          \/ \E saved : Disturb(r, u, saved)
          \/ disturbed' = disturbed \cup {u}
          \/ /\ groups[g] # Absent
             /\ disturbed' = disturbed \cup groups[g] \cup us \cup edited[r]
      BY DEF Handler, u, g, us, AddMember, AddGetUser, AddWriteUser, AddRollback,
             RemoveMember, RemoveGetUser, RemoveWriteUser, GetUserForUpdate,
             WriteUser, GetGroupForUpdate, WriteGroup, IsMember
    <2> QED BY <2>1, <1>0, StoreTypes, DisturbType, CopyNowType DEF TypeOK
  <1>5. /\ usersFile' \in [Users -> {Absent} \cup SUBSET Groups]
        /\ groupsFile' \in [Groups -> {Absent} \cup SUBSET Users]
    BY <1>2, <1>3, HandlerSaves DEF TypeOK
  <1> QED BY <1>1, <1>2, <1>3, <1>4, <1>5 DEF TypeOK

\* What the requests that hold a copy of a group have seen are users.
LEMMA WatchType == TypeOK /\ Watch => edited' \in [Requests -> SUBSET Users]
  <1> SUFFICES ASSUME TypeOK, Watch, NEW r \in Requests PROVE edited'[r] \in SUBSET Users
    BY DEF Watch
  <1>1. edited[r] \in SUBSET Users
    BY DEF TypeOK
  <1> QED BY <1>1 DEF Watch

LEMMA NextTypeOK == TypeOK /\ [Next]_vars => TypeOK'
  <1> SUFFICES ASSUME TypeOK, [Next]_vars PROVE TypeOK'
    OBVIOUS
  <1>0. CASE UNCHANGED vars
    BY <1>0 DEF vars, TypeOK
  <1>1. CASE (Change \/ Restart) /\ edited' \in [Requests -> SUBSET Users]
    <2>1. ASSUME NEW r \in Requests, Handler(r) PROVE TypeOK'
      BY <1>1, <2>1, HandlerTypeOK
    <2>2. ASSUME NEW u \in Users, NEW gs \in SUBSET Groups, CreateUser(u, gs)
          PROVE TypeOK'
      BY <1>1, <2>2 DEF CreateUser, TypeOK, PutUser, SaveUsers
    <2>3. ASSUME NEW u \in Users, DeleteUser(u) PROVE TypeOK'
      BY <1>1, <2>3 DEF DeleteUser, TypeOK, PutUser, SaveUsers
    <2>4. ASSUME NEW g \in Groups, CreateGroup(g) PROVE TypeOK'
      BY <1>1, <2>4 DEF CreateGroup, TypeOK, PutGroup, SaveGroups
    <2>5. ASSUME NEW g \in Groups, DeleteGroup(g) PROVE TypeOK'
      BY <1>1, <2>5, StoreTypes DEF DeleteGroup, TypeOK, PutGroup, SaveGroups
    <2>6. CASE Restart
      <3>1. req' \in [Requests -> Request]
        <4>1. ASSUME NEW r \in Requests
              PROVE  /\ req[r] \in Request
                     /\ [req[r] EXCEPT !.at = "failed", !.groups = {}, !.members = {}] \in Request
          BY DEF TypeOK, Request
        <4> QED BY <2>6, <4>1 DEF Restart
      <3>2. /\ users' \in [Users -> {Absent} \cup SUBSET Groups]
            /\ groups' \in [Groups -> {Absent} \cup SUBSET Users]
            /\ usersFile' = usersFile /\ groupsFile' = groupsFile
        BY <2>6 DEF Restart, TypeOK
      <3>3. disturbed' \in SUBSET Users
        BY <2>6 DEF Restart, TypeOK
      <3> QED BY <1>1, <3>1, <3>2, <3>3 DEF TypeOK
    <2> QED BY <1>1, <2>1, <2>2, <2>3, <2>4, <2>5, <2>6 DEF Change
  <1> QED BY <1>0, <1>1, WatchType DEF Next

\* The stores, the requests and the history keep their shape: no handler
\* stores a copy of something else than user groups or group members.
THEOREM TypeCorrect == Spec => []TypeOK
  BY InitTypeOK, NextTypeOK, PTL DEF Spec

-----------------------------------------------------------------------------
(* The agreement of the two stores.                                        *)

LEMMA InitUserInv == Init => \A u \in Users : UserInv(u)
  <1> SUFFICES ASSUME Init, NEW u \in Users PROVE UserInv(u)
    OBVIOUS
  <1>1. \A r \in Requests : req[r].at = "new"
    BY DEF Init
  <1>2. \A r \in Requests : ~BusyOn(r, u)
    BY <1>1 DEF BusyOn
  <1>3. Agree(u)
    BY DEF Init
  <1> QED BY <1>2, <1>3 DEF UserInv

\* A step that changes neither side of u, nor a request on u, keeps UserInv(u).
LEMMA Frame ==
    ASSUME TypeOK, NEW u \in Users, UserInv(u),
           GroupsOf(u)' = GroupsOf(u),
           \A h \in Groups : (u \in MembersOf(h))' <=> u \in MembersOf(h),
           users[u] # Absent => users'[u] # Absent,
           \A r \in Requests : BusyOn(r, u)' <=> BusyOn(r, u),
           \A r \in Requests : BusyOn(r, u) => req'[r] = req[r]
    PROVE  UserInv(u)'
  <1>1. Agree(u)' <=> Agree(u)
    BY DEF Agree
  <1>2. ASSUME NEW r \in Requests, BusyOn(r, u)' PROVE HalfDone(r, u, req[r].group)'
    <2>1. BusyOn(r, u) /\ req'[r] = req[r]
      BY <1>2
    <2>2. /\ HalfDone(r, u, req[r].group) /\ req[r].group = req'[r].group
          /\ req[r].group \in Groups
      BY <2>1, RequestFields DEF UserInv
    <2> QED BY <1>1, <2>1, <2>2 DEF HalfDone
  <1> QED BY <1>1, <1>2 DEF UserInv, Idle

\* A file that was written holds what the memory holds, and one that was not
\* does if the memory's side of u did not change, the groups that u is leaving
\* excepted.
LEMMA DiskFrame ==
    ASSUME NEW u \in Users, OnDisk(u),
           \/ usersFile' = users'
           \/ /\ usersFile' = usersFile /\ Leaving(u) \subseteq Leaving(u)'
              /\ \A g \in Groups \ Leaving(u)' : g \in GroupsOf(u)' <=> g \in GroupsOf(u),
           \/ groupsFile' = groups'
           \/ /\ groupsFile' = groupsFile
              /\ \A h \in Groups : (u \in MembersOf(h))' <=> u \in MembersOf(h)
    PROVE  OnDisk(u)'
  <1>1. \A g \in Groups \ Leaving(u)' :
            (g \in GroupsOf(u) <=> usersFile[u] # Absent /\ g \in usersFile[u])'
    BY DEF OnDisk, GroupsOf
  <1>2. \A g \in Groups :
            (u \in MembersOf(g) <=> groupsFile[g] # Absent /\ u \in groupsFile[g])'
    BY DEF OnDisk, MembersOf
  <1> QED BY <1>1, <1>2 DEF OnDisk

\* A request r that is the only one on u, before and after its step.
LEMMA OnlyRequest ==
    ASSUME TypeOK, NEW u \in Users, NEW r \in Requests, req[r].user = u,
           req' \in [Requests -> Request], req'[r].user = u,
           \A s \in Requests \ {r} : req'[s] = req[s],
           \A s \in Requests \ {r} : ~BusyOn(s, u),
           req'[r].at \in Waiting => Agree(u)',
           req'[r].at \in UserSteps => HalfDone(r, u, req[r].group)',
           req'[r].at \in Waiting \cup UserSteps
    PROVE  UserInv(u)'
  <1>1. \A s \in Requests \ {r} : ~BusyOn(s, u)'
    BY DEF BusyOn
  <1>2. BusyOn(r, u)' <=> req'[r].at \in UserSteps
    BY DEF BusyOn
  <1>3. req'[r].at \in Waiting => Agree(u)'
    OBVIOUS
  <1>4. Idle(u)' => Agree(u)'
    BY <1>2, <1>3 DEF Idle
  <1>5. BusyOn(r, u)' => HalfDone(r, u, req[r].group)'
    BY <1>2
  <1> QED BY <1>1, <1>4, <1>5 DEF UserInv

\* A store call on one entry changes what the entry says, and no other.
LEMMA UserEffect ==
    ASSUME TypeOK, NEW u \in Users, NEW gs \in SUBSET Groups,
           PutUser(u, gs)
    PROVE  GroupsOf(u)' = gs /\ \A v \in Users \ {u} : GroupsOf(v)' = GroupsOf(v)
  BY AbsentAssumption DEF GroupsOf, TypeOK, PutUser

LEMMA GroupEffect ==
    ASSUME TypeOK, NEW g \in Groups, NEW us \in SUBSET Users,
           PutGroup(g, us)
    PROVE  MembersOf(g)' = us /\ \A h \in Groups \ {g} : MembersOf(h)' = MembersOf(h)
  BY AbsentAssumption DEF MembersOf, TypeOK, PutGroup

\* Who was leaving a group still is, but for the request that makes a step.
LEMMA LeavingStays ==
    ASSUME NEW u \in Users, NEW r \in Requests, \A s \in Requests \ {r} : req'[s] = req[s],
           req[r].at # "removeWrite" \/ req[r].user # u
    PROVE  Leaving(u) \subseteq Leaving(u)'
  <1> SUFFICES ASSUME NEW s \in Requests, BusyOn(s, u), req[s].at = "removeWrite"
               PROVE  BusyOn(s, u)' /\ req'[s] = req[s]
    BY DEF Leaving
  <1> QED BY DEF BusyOn

LEMMA SameUsers ==
    ASSUME users' = users PROVE \A u \in Users : GroupsOf(u)' = GroupsOf(u)
  BY DEF GroupsOf

LEMMA SameGroups ==
    ASSUME groups' = groups PROVE \A g \in Groups : MembersOf(g)' = MembersOf(g)
  BY DEF MembersOf

\* A request that starts undisturbed starts on a user the stores agree about.
LEMMA UndisturbedStart ==
    ASSUME TypeOK, NEW u \in Users, NEW r \in Requests, req[r].user = u,
           req[r].at = "new", UserInv(u), NEW saved,
           Disturb(r, u, saved), u \notin disturbed'
    PROVE  saved /\ Agree(u) /\ \A s \in Requests \ {r} : ~BusyOn(s, u)
  <1>1. saved /\ \A s \in Requests \ {r} : ~BusyOn(s, u)
    BY DEF Disturb
  <1>2. ~BusyOn(r, u)
    BY DEF BusyOn
  <1> QED BY <1>1, <1>2 DEF UserInv, Idle

\* A request in the middle is alone on its undisturbed user.
LEMMA UndisturbedMiddle ==
    ASSUME NEW u \in Users, NEW r \in Requests, BusyOn(r, u), UserInv(u)
    PROVE  HalfDone(r, u, req[r].group) /\ \A s \in Requests \ {r} : ~BusyOn(s, u)
  BY DEF UserInv

\* A first call that fails, or that starts UpdateGroup, is no step on u.
LEMMA FailedStart ==
    ASSUME TypeOK, NEW u \in Users, UserInv(u), NEW r \in Requests,
           req[r].at = "new", req'[r].at \notin UserSteps,
           \A s \in Requests \ {r} : req'[s] = req[s],
           users' = users, groups' = groups
    PROVE  UserInv(u)'
  <1>1. \A s \in Requests : BusyOn(s, u)' <=> BusyOn(s, u)
    BY DEF BusyOn
  <1>2. \A s \in Requests : BusyOn(s, u) => req'[s] = req[s]
    BY DEF BusyOn
  <1> QED BY <1>1, <1>2, Frame, SameUsers, SameGroups

\* The three calls of AddUserToGroup and its rollback.
LEMMA AddStep ==
    ASSUME TypeOK, TypeOK', NEW u \in Users, u \notin disturbed', UserInv(u),
           NEW r \in Requests, req[r].user = u,
           AddMember(r) \/ AddGetUser(r) \/ AddWriteUser(r) \/ AddRollback(r)
    PROVE  UserInv(u)'
  <1>0. PICK g \in Groups : g = req[r].group
    BY RequestFields
  <1>1. CASE AddMember(r)
    <2>1. CASE groups[g] = Absent \/ IsMember(u, g)
      <3>1. Return(r, "failed") /\ req[r].at = "new" /\ users' = users /\ groups' = groups
        BY <1>0, <1>1, <2>1 DEF AddMember
      <3> QED BY <3>1, ReturnEffect, FailedStart
    <2>2. CASE groups[g] # Absent /\ ~IsMember(u, g)
      <3>1. PICK saved \in Saves : /\ IF saved THEN Goto(r, "addGet")
                                               ELSE Return(r, "failed")
                                   /\ Disturb(r, u, saved)
        BY <1>0, <1>1, <2>2 DEF AddMember
      <3>2. req[r].at = "new" /\ users' = users /\ PutGroup(g, groups[g] \cup {u})
        BY <1>0, <1>1, <2>2 DEF AddMember
      <3>3. saved /\ Agree(u) /\ \A s \in Requests \ {r} : ~BusyOn(s, u)
        BY <3>1, <3>2, UndisturbedStart
      <3>4. groups[g] \cup {u} \in SUBSET Users
        BY <2>2, StoreTypes
      <3>5. /\ MembersOf(g)' = groups[g] \cup {u}
            /\ \A h \in Groups \ {g} : MembersOf(h)' = MembersOf(h)
            /\ GroupsOf(u)' = GroupsOf(u)
        BY <3>2, <3>4, GroupEffect, SameUsers
      <3>6. g \notin GroupsOf(u)
        BY <2>2, <3>3 DEF Agree, IsMember, MembersOf
      <3>7. /\ req' \in [Requests -> Request]
            /\ \A s \in Requests \ {r} : req'[s] = req[s]
            /\ req'[r].at = "addGet" /\ req'[r].user = u /\ req'[r].group = g
        BY <1>0, <3>1, <3>3, GotoEffect
      <3>8. HalfDone(r, u, req[r].group)'
        BY <3>3, <3>5, <3>6, <3>7 DEF HalfDone, Agree
      <3> QED BY <3>3, <3>7, <3>8, OnlyRequest
    <2> QED BY <2>1, <2>2
  <1>2. CASE AddGetUser(r)
    <2>1. BusyOn(r, u) /\ req[r].at = "addGet" /\ users' = users /\ groups' = groups
      BY <1>2 DEF AddGetUser, BusyOn
    <2>2. HalfDone(r, u, g) /\ \A s \in Requests \ {r} : ~BusyOn(s, u)
      BY <1>0, <2>1, UndisturbedMiddle
    <2>3. /\ \A h \in Groups : MembersOf(h)' = MembersOf(h)
          /\ GroupsOf(u)' = GroupsOf(u)
      BY <2>1, SameUsers, SameGroups
    <2>4. CASE users[u] = Absent
      <3>1. /\ req' \in [Requests -> Request]
            /\ \A s \in Requests \ {r} : req'[s] = req[s]
            /\ req'[r].at = "addRollback" /\ req'[r].user = u /\ req'[r].group = g
        BY <1>0, <1>2, <2>4, GotoEffect DEF AddGetUser
      <3>2. HalfDone(r, u, req[r].group)'
        BY <2>1, <2>2, <2>3, <3>1 DEF HalfDone
      <3> QED BY <2>2, <3>1, <3>2, OnlyRequest
    <2>5. CASE users[u] # Absent
      <3>1. g \notin users[u] /\ GroupsOf(u) = users[u]
        BY <2>1, <2>2, <2>5 DEF HalfDone, GroupsOf
      <3>2. users[u] \cup {g} \in SUBSET Groups
        BY <2>5, StoreTypes
      <3>3. TakeGroups(r, "addWrite", users[u] \cup {g})
        BY <1>0, <1>2, <2>5, <3>1 DEF AddGetUser
      <3>4. /\ req' \in [Requests -> Request]
            /\ \A s \in Requests \ {r} : req'[s] = req[s]
            /\ req'[r].at = "addWrite" /\ req'[r].user = u /\ req'[r].group = g
            /\ req'[r].groups = users[u] \cup {g}
        BY <1>0, <3>2, <3>3, CopyEffect
      <3>5. HalfDone(r, u, req[r].group)'
        BY <2>1, <2>2, <2>3, <3>1, <3>4 DEF HalfDone
      <3> QED BY <2>2, <3>4, <3>5, OnlyRequest
    <2> QED BY <2>4, <2>5
  <1>3. CASE AddWriteUser(r)
    <2>1. BusyOn(r, u) /\ req[r].at = "addWrite" /\ groups' = groups
      BY <1>3 DEF AddWriteUser, BusyOn
    <2>2. HalfDone(r, u, g) /\ \A s \in Requests \ {r} : ~BusyOn(s, u)
      BY <1>0, <2>1, UndisturbedMiddle
    <2>3. \A h \in Groups : MembersOf(h)' = MembersOf(h)
      BY <2>1, SameGroups
    <2>4. CASE users[u] = Absent
      <3>1. /\ req' \in [Requests -> Request]
            /\ \A s \in Requests \ {r} : req'[s] = req[s]
            /\ req'[r].at = "addRollback" /\ req'[r].user = u /\ req'[r].group = g
            /\ GroupsOf(u)' = GroupsOf(u)
        BY <1>0, <1>3, <2>4, GotoEffect, SameUsers DEF AddWriteUser
      <3>2. HalfDone(r, u, req[r].group)'
        BY <2>1, <2>2, <2>3, <3>1 DEF HalfDone
      <3> QED BY <2>2, <3>1, <3>2, OnlyRequest
    <2>5. CASE users[u] # Absent
      <3>1. PICK saved \in Saves : /\ IF saved THEN Return(r, "ok")
                                               ELSE Goto(r, "addRollback")
                                   /\ Disturb(r, u, saved)
        BY <1>3, <2>5 DEF AddWriteUser
      <3>2. PutUser(u, req[r].groups) /\ req[r].groups \in SUBSET Groups
        BY <1>3, <2>5, RequestFields DEF AddWriteUser
      <3>3. saved
        BY <3>1 DEF Disturb
      <3>4. /\ req' \in [Requests -> Request]
            /\ \A s \in Requests \ {r} : req'[s] = req[s]
            /\ req'[r].at = "ok" /\ req'[r].user = u
        BY <3>1, <3>3, ReturnEffect
      <3>5. GroupsOf(u)' = GroupsOf(u) \cup {g}
        BY <2>1, <2>2, <3>2, UserEffect DEF HalfDone
      <3>6. Agree(u)'
        BY <2>1, <2>2, <2>3, <3>5 DEF HalfDone, Agree
      <3> QED BY <2>2, <3>4, <3>6, OnlyRequest
    <2> QED BY <2>4, <2>5
  <1>4. CASE AddRollback(r)
    <2>1. BusyOn(r, u) /\ req[r].at = "addRollback" /\ users' = users
      BY <1>4 DEF AddRollback, BusyOn
    <2>2. HalfDone(r, u, g) /\ \A s \in Requests \ {r} : ~BusyOn(s, u)
      BY <1>0, <2>1, UndisturbedMiddle
    <2>3. IsMember(u, g)
      BY <2>1, <2>2 DEF HalfDone, MembersOf, IsMember
    <2>4. PutGroup(g, groups[g] \ {u}) /\ groups[g] \ {u} \in SUBSET Users
      BY <1>0, <1>4, <2>3, StoreTypes DEF AddRollback, IsMember
    <2>5. /\ MembersOf(g)' = groups[g] \ {u}
          /\ \A h \in Groups \ {g} : MembersOf(h)' = MembersOf(h)
          /\ GroupsOf(u)' = GroupsOf(u)
      BY <2>1, <2>4, GroupEffect, SameUsers
    <2>6. /\ req' \in [Requests -> Request]
          /\ \A s \in Requests \ {r} : req'[s] = req[s]
          /\ req'[r].at = "failed" /\ req'[r].user = u
      BY <1>4, ReturnEffect DEF AddRollback
    <2>7. Agree(u)'
      BY <2>1, <2>2, <2>5 DEF HalfDone, Agree
    <2> QED BY <2>2, <2>6, <2>7, OnlyRequest
  <1> QED BY <1>1, <1>2, <1>3, <1>4

\* The three calls of RemoveUserFromGroup.
LEMMA RemoveStep ==
    ASSUME TypeOK, TypeOK', NEW u \in Users, u \notin disturbed', UserInv(u),
           NEW r \in Requests, req[r].user = u,
           RemoveMember(r) \/ RemoveGetUser(r) \/ RemoveWriteUser(r)
    PROVE  UserInv(u)'
  <1>0. PICK g \in Groups : g = req[r].group
    BY RequestFields
  <1>1. CASE RemoveMember(r)
    <2>1. CASE ~IsMember(u, g)
      <3>1. Return(r, "failed") /\ req[r].at = "new" /\ users' = users /\ groups' = groups
        BY <1>0, <1>1, <2>1 DEF RemoveMember
      <3> QED BY <3>1, ReturnEffect, FailedStart
    <2>2. CASE IsMember(u, g)
      <3>1. PICK saved \in Saves : /\ IF saved THEN Goto(r, "removeGet")
                                               ELSE Return(r, "failed")
                                   /\ Disturb(r, u, saved)
        BY <1>0, <1>1, <2>2 DEF RemoveMember
      <3>2. req[r].at = "new" /\ users' = users /\ PutGroup(g, groups[g] \ {u})
        BY <1>0, <1>1, <2>2 DEF RemoveMember
      <3>3. saved /\ Agree(u) /\ \A s \in Requests \ {r} : ~BusyOn(s, u)
        BY <3>1, <3>2, UndisturbedStart
      <3>4. groups[g] \ {u} \in SUBSET Users
        BY <2>2, StoreTypes DEF IsMember
      <3>5. /\ MembersOf(g)' = groups[g] \ {u}
            /\ \A h \in Groups \ {g} : MembersOf(h)' = MembersOf(h)
            /\ GroupsOf(u)' = GroupsOf(u)
        BY <3>2, <3>4, GroupEffect, SameUsers
      <3>6. g \in GroupsOf(u)
        BY <2>2, <3>3 DEF Agree, IsMember, MembersOf
      <3>7. /\ req' \in [Requests -> Request]
            /\ \A s \in Requests \ {r} : req'[s] = req[s]
            /\ req'[r].at = "removeGet" /\ req'[r].user = u /\ req'[r].group = g
        BY <1>0, <3>1, <3>3, GotoEffect
      <3>8. HalfDone(r, u, req[r].group)'
        BY <3>3, <3>5, <3>6, <3>7 DEF HalfDone, Agree
      <3> QED BY <3>3, <3>7, <3>8, OnlyRequest
    <2> QED BY <2>1, <2>2
  <1>2. CASE RemoveGetUser(r)
    <2>1. BusyOn(r, u) /\ req[r].at = "removeGet" /\ groups' = groups
      BY <1>2 DEF RemoveGetUser, BusyOn
    <2>2. HalfDone(r, u, g) /\ \A s \in Requests \ {r} : ~BusyOn(s, u)
      BY <1>0, <2>1, UndisturbedMiddle
    <2>4. g \in GroupsOf(u)
      BY <2>1, <2>2 DEF HalfDone
    <2>5. /\ GroupsOf(u) = users[u] /\ users[u] \ {g} \in SUBSET Groups /\ users[u] # Absent
          /\ TakeGroups(r, "removeWrite", users[u] \ {g})
          /\ users' = users \/ PutUser(u, users[u] \ {g})
      BY <1>0, <1>2, <2>4, StoreTypes DEF RemoveGetUser, GroupsOf
    <2>3. /\ \A h \in Groups : MembersOf(h)' = MembersOf(h)
          /\ GroupsOf(u)' = users[u] \/ GroupsOf(u)' = users[u] \ {g}
          /\ users'[u] # Absent
      <3>1. \A h \in Groups : MembersOf(h)' = MembersOf(h)
        BY <2>1, SameGroups
      <3>2. CASE users' = users
        BY <2>5, <3>1, <3>2, SameUsers
      <3>3. CASE PutUser(u, users[u] \ {g})
        BY <2>5, <3>1, <3>3, UserEffect, AbsentAssumption DEF PutUser, TypeOK
      <3> QED BY <2>5, <3>2, <3>3
    <2>6. /\ req' \in [Requests -> Request]
          /\ \A s \in Requests \ {r} : req'[s] = req[s]
          /\ req'[r].at = "removeWrite" /\ req'[r].user = u /\ req'[r].group = g
          /\ req'[r].groups = users[u] \ {g}
      BY <1>0, <2>5, CopyEffect
    <2>7. HalfDone(r, u, req[r].group)'
      <3>1. \A h \in Groups \ {g} : (u \in MembersOf(h))' <=> (h \in GroupsOf(u))'
        BY <2>2, <2>3, <2>5 DEF HalfDone
      <3>2. u \notin MembersOf(g)'
        BY <2>1, <2>2, <2>3 DEF HalfDone
      <3>3. req'[r].groups = GroupsOf(u)' \ {g}
        BY <2>3, <2>6
      <3> QED BY <2>3, <2>6, <3>1, <3>2, <3>3 DEF HalfDone
    <2> QED BY <2>2, <2>6, <2>7, OnlyRequest
  <1>3. CASE RemoveWriteUser(r)
    <2>1. BusyOn(r, u) /\ req[r].at = "removeWrite" /\ groups' = groups
      BY <1>3 DEF RemoveWriteUser, BusyOn
    <2>2. HalfDone(r, u, g) /\ \A s \in Requests \ {r} : ~BusyOn(s, u)
      BY <1>0, <2>1, UndisturbedMiddle
    <2>3. \A h \in Groups : MembersOf(h)' = MembersOf(h)
      BY <2>1, SameGroups
    <2>4. users[u] # Absent
      BY <2>1, <2>2 DEF HalfDone, GroupsOf
    <2>5. PICK saved \in Saves : /\ Return(r, IF saved THEN "ok" ELSE "failed")
                                 /\ Disturb(r, u, saved)
      BY <1>3, <2>4 DEF RemoveWriteUser
    <2>6. PutUser(u, req[r].groups) /\ req[r].groups \in SUBSET Groups
      BY <1>3, <2>4, RequestFields DEF RemoveWriteUser
    <2>7. Return(r, "ok")
      BY <2>5 DEF Disturb
    <2>8. /\ req' \in [Requests -> Request]
          /\ \A s \in Requests \ {r} : req'[s] = req[s]
          /\ req'[r].at = "ok" /\ req'[r].user = u
      BY <2>7, ReturnEffect
    <2>9. GroupsOf(u)' = GroupsOf(u) \ {g}
      BY <2>1, <2>2, <2>6, UserEffect DEF HalfDone
    <2>10. Agree(u)'
      BY <2>1, <2>2, <2>3, <2>9 DEF HalfDone, Agree
    <2> QED BY <2>2, <2>8, <2>10, OnlyRequest
  <1> QED BY <1>1, <1>2, <1>3

\* The read and the write of UpdateUser and of the logins.
LEMMA UpdateStep ==
    ASSUME TypeOK, TypeOK', NEW u \in Users, u \notin disturbed', UserInv(u),
           NEW r \in Requests, req[r].user = u,
           GetUserForUpdate(r) \/ WriteUser(r)
    PROVE  UserInv(u)'
  <1>0. PICK g \in Groups : g = req[r].group
    BY RequestFields
  <1>1. CASE GetUserForUpdate(r)
    <2>0. req[r].at = "new" /\ users' = users /\ groups' = groups
      BY <1>1 DEF GetUserForUpdate
    <2>1. CASE users[u] = Absent
      <3>1. Return(r, "failed")
        BY <1>1, <2>1 DEF GetUserForUpdate
      <3> QED BY <2>0, <3>1, ReturnEffect, FailedStart
    <2>2. CASE users[u] # Absent
      <3>1. TakeGroups(r, "userWrite", users[u]) /\ Disturb(r, u, TRUE)
        BY <1>1, <2>2 DEF GetUserForUpdate, TypeOK
      <3>2. Agree(u) /\ \A s \in Requests \ {r} : ~BusyOn(s, u)
        BY <2>0, <3>1, UndisturbedStart
      <3>3. GroupsOf(u) = users[u] /\ users[u] \in SUBSET Groups
        BY <2>2, StoreTypes DEF GroupsOf
      <3>4. /\ req' \in [Requests -> Request]
            /\ \A s \in Requests \ {r} : req'[s] = req[s]
            /\ req'[r].at = "userWrite" /\ req'[r].user = u /\ req'[r].group = g
            /\ req'[r].groups = users[u]
        BY <1>0, <3>1, <3>3, CopyEffect
      <3>5. /\ \A h \in Groups : MembersOf(h)' = MembersOf(h)
            /\ GroupsOf(u)' = GroupsOf(u)
        BY <2>0, SameUsers, SameGroups
      <3>6. Agree(u)'
        BY <3>2, <3>5 DEF Agree
      <3>7. HalfDone(r, u, req[r].group)'
        BY <3>2, <3>3, <3>4, <3>5, <3>6 DEF HalfDone, Agree
      <3> QED BY <3>2, <3>4, <3>7, OnlyRequest
    <2> QED BY <2>1, <2>2
  <1>2. CASE WriteUser(r)
    <2>1. BusyOn(r, u) /\ req[r].at = "userWrite" /\ groups' = groups
      BY <1>2 DEF WriteUser, BusyOn
    <2>2. HalfDone(r, u, g) /\ \A s \in Requests \ {r} : ~BusyOn(s, u)
      BY <1>0, <2>1, UndisturbedMiddle
    <2>3. Agree(u) /\ req[r].groups = GroupsOf(u)
      BY <2>1, <2>2 DEF HalfDone
    <2>4. \A h \in Groups : MembersOf(h)' = MembersOf(h)
      BY <2>1, SameGroups
    <2>5. GroupsOf(u)' = GroupsOf(u)
      <3>1. req[r].groups \in SUBSET Groups
        BY RequestFields
      <3> QED BY <1>2, <2>3, <3>1, UserEffect, SameUsers DEF WriteUser
    <2>6. /\ req' \in [Requests -> Request]
          /\ \A s \in Requests \ {r} : req'[s] = req[s]
          /\ req'[r].at \in {"ok", "failed"} /\ req'[r].user = u
      BY <1>2, ReturnEffect DEF WriteUser
    <2>7. Agree(u)'
      BY <2>3, <2>4, <2>5 DEF Agree
    <2> QED BY <2>2, <2>6, <2>7, OnlyRequest
  <1> QED BY <1>1, <1>2

\* A step of a request on another user, or of UpdateGroup on any, changes
\* neither side of u: UpdateGroup writes back stale members only of users it
\* disturbs.
LEMMA OtherSides ==
    ASSUME TypeOK, CopiesCurrent, NEW u \in Users, u \notin disturbed',
           NEW r \in Requests, Handler(r),
           req[r].user # u \/ GetGroupForUpdate(r) \/ WriteGroup(r)
    PROVE  /\ GroupsOf(u)' = GroupsOf(u)
           /\ \A h \in Groups : (u \in MembersOf(h))' <=> u \in MembersOf(h)
           /\ users[u] # Absent => users'[u] # Absent
  <1>0. PICK v \in Users, g \in Groups :
            v = req[r].user /\ g = req[r].group
    BY RequestFields
  <1>2. CASE GetGroupForUpdate(r) \/ WriteGroup(r)
    <2>1. users' = users
      BY <1>2 DEF GetGroupForUpdate, WriteGroup
    <2>2. CASE groups' = groups
      BY <2>1, <2>2, SameUsers, SameGroups
    <2>3. CASE groups' # groups
      <3>1. /\ groups[g] # Absent /\ \E us \in CopyNow(r) : PutGroup(g, us)
            /\ disturbed' = IF edited[r] = {} THEN disturbed
                            ELSE disturbed \cup groups[g] \cup req[r].members \cup edited[r]
            /\ req[r].at = "groupWrite"
        BY <1>0, <1>2, <2>3 DEF GetGroupForUpdate, WriteGroup
      <3>2. PICK us \in CopyNow(r) : PutGroup(g, us)
        BY <3>1
      <3>3. /\ MembersOf(g)' = us
            /\ \A h \in Groups \ {g} : MembersOf(h)' = MembersOf(h)
        BY <3>2, GroupEffect, CopyNowType
      <3>4. u \in MembersOf(g) <=> u \in us
        <4>1. CASE edited[r] = {}
          <5>1. us = req[r].members
            BY <4>1 DEF CopyNow
          <5>2. u \in req[r].members <=> u \in MembersOf(g)
            BY <1>0, <3>1, <4>1 DEF CopiesCurrent
          <5> QED BY <5>1, <5>2
        <4>2. CASE edited[r] # {}
          BY <3>1, <4>2 DEF MembersOf, CopyNow
        <4> QED BY <4>1, <4>2
      <3> QED BY <2>1, <3>3, <3>4, SameUsers
    <2> QED BY <2>2, <2>3
  <1>3. CASE v # u /\ ~(GetGroupForUpdate(r) \/ WriteGroup(r))
    <2>1. GroupsOf(u)' = GroupsOf(u)
      <3>1. \/ users' = users
            \/ PutUser(v, req[r].groups)
            \/ users[v] \ {g} \in SUBSET Groups /\ PutUser(v, users[v] \ {g})
        <4>1. g \in GroupsOf(v) => users[v] \ {g} \in SUBSET Groups
          BY StoreTypes DEF GroupsOf
        <4> QED BY <1>0, <4>1 DEF Handler, AddMember, AddGetUser, AddWriteUser, AddRollback,
             RemoveMember, RemoveGetUser, RemoveWriteUser, GetUserForUpdate,
             WriteUser, GetGroupForUpdate, WriteGroup
      <3> QED BY <1>3, <3>1, UserEffect, SameUsers, RequestFields
    <2>2. \A h \in Groups : (u \in MembersOf(h))' <=> u \in MembersOf(h)
      <3>1. \/ groups' = groups
            \/ groups[g] # Absent /\ PutGroup(g, groups[g] \cup {v})
            \/ groups[g] # Absent /\ PutGroup(g, groups[g] \ {v})
        BY <1>0, <1>3 DEF Handler, AddMember, AddGetUser, AddWriteUser, AddRollback,
             RemoveMember, RemoveGetUser, RemoveWriteUser, GetUserForUpdate,
             WriteUser, IsMember
      <3>2. groups[g] # Absent => MembersOf(g) = groups[g] /\ groups[g] \in SUBSET Users
        BY StoreTypes DEF MembersOf
      <3>3. groups[g] # Absent => /\ groups[g] \cup {v} \in SUBSET Users
                                  /\ groups[g] \ {v} \in SUBSET Users
        BY <3>2
      <3> QED BY <1>3, <3>1, <3>2, <3>3, GroupEffect, SameGroups
    <2>3. users[u] # Absent => users'[u] # Absent
      BY <1>0, <1>3 DEF Handler, PutUser, TypeOK, AddMember, AddGetUser, AddWriteUser, AddRollback,
             RemoveMember, RemoveGetUser, RemoveWriteUser, GetUserForUpdate, WriteUser
    <2> QED BY <2>1, <2>2, <2>3
  <1> QED BY <1>0, <1>2, <1>3

\* ... so it is no step on u.
LEMMA OtherStep ==
    ASSUME TypeOK, CopiesCurrent, NEW u \in Users, u \notin disturbed', UserInv(u),
           NEW r \in Requests, Handler(r),
           req[r].user # u \/ GetGroupForUpdate(r) \/ WriteGroup(r)
    PROVE  UserInv(u)'
  <1>1. /\ req' \in [Requests -> Request]
        /\ \A s \in Requests \ {r} : req'[s] = req[s]
        /\ req'[r].user = req[r].user
    BY HandlerRequest
  <1>2. CASE GetGroupForUpdate(r) \/ WriteGroup(r)
    <2>1. req'[r].at \in {"failed", "ok", "groupWrite"}
      BY <1>2, StoreTypes, RequestFields, ReturnEffect, MembersEffect
         DEF GetGroupForUpdate, WriteGroup
    <2>2. req[r].at \in {"new", "groupWrite"}
      BY <1>2 DEF GetGroupForUpdate, WriteGroup
    <2>3. \A s \in Requests : BusyOn(s, u)' <=> BusyOn(s, u)
      BY <1>1, <2>1, <2>2 DEF BusyOn
    <2>4. \A s \in Requests : BusyOn(s, u) => req'[s] = req[s]
      BY <1>1, <2>2 DEF BusyOn
    <2> QED BY <2>3, <2>4, OtherSides, Frame
  <1>3. CASE req[r].user # u
    <2>1. \A s \in Requests : BusyOn(s, u)' <=> BusyOn(s, u)
      BY <1>1, <1>3 DEF BusyOn
    <2>2. \A s \in Requests : BusyOn(s, u) => req'[s] = req[s]
      BY <1>1, <1>3 DEF BusyOn
    <2> QED BY <2>1, <2>2, OtherSides, Frame
  <1> QED BY <1>2, <1>3

\* A store call that does not reach the file changes neither side of an
\* undisturbed user, so the files tell of it what the memory tells.
LEMMA HandlerOnDisk ==
    ASSUME TypeOK, TypeOK', CopiesCurrent, NEW u \in Users, u \notin disturbed',
           UserInv(u), OnDisk(u), NEW r \in Requests, Handler(r)
    PROVE  OnDisk(u)'
  <1>0. ASSUME req[r].at # "removeWrite" \/ req[r].user # u
        PROVE  Leaving(u) \subseteq Leaving(u)'
    BY <1>0, HandlerRequest, LeavingStays
  <1>1. CASE req[r].user # u \/ GetGroupForUpdate(r) \/ WriteGroup(r)
    <2>1. req[r].at # "removeWrite" \/ req[r].user # u
      BY <1>1 DEF GetGroupForUpdate, WriteGroup
    <2> QED BY <1>0, <1>1, <2>1, OtherSides, DiskFrame, HandlerSaves
  <1>2. CASE req[r].user = u /\ (AddMember(r) \/ RemoveMember(r) \/ AddRollback(r))
    <2>1. users' = users /\ usersFile' = usersFile /\ req[r].at # "removeWrite"
      BY <1>2 DEF AddMember, RemoveMember, AddRollback
    <2>2. groupsFile' = groups' \/ groups' = groups
      BY <1>2 DEF AddMember, RemoveMember, AddRollback, SaveGroups, Disturb
    <2> QED BY <1>0, <2>1, <2>2, HandlerSaves, DiskFrame, SameUsers, SameGroups
  <1>3. CASE req[r].user = u /\ (AddWriteUser(r) \/ RemoveWriteUser(r))
    <2>1. groups' = groups /\ groupsFile' = groupsFile
      BY <1>3 DEF AddWriteUser, RemoveWriteUser
    <2>2. usersFile' = users' \/ (users' = users /\ req[r].at # "removeWrite")
      <3>1. CASE AddWriteUser(r)
        BY <1>3, <3>1 DEF AddWriteUser, SaveUsers, Disturb
      <3>2. CASE RemoveWriteUser(r)
        <4>1. BusyOn(r, u) /\ req[r].at = "removeWrite"
          BY <1>3, <3>2 DEF RemoveWriteUser, BusyOn
        <4>2. users[u] # Absent
          BY <4>1, UndisturbedMiddle DEF HalfDone
        <4>3. PICK saved \in Saves : SaveUsers(saved) /\ Disturb(r, u, saved)
          BY <1>3, <3>2, <4>2 DEF RemoveWriteUser
        <4>4. saved
          BY <4>3 DEF Disturb
        <4> QED BY <4>3, <4>4 DEF SaveUsers
      <3> QED BY <1>3, <3>1, <3>2
    <2> QED BY <1>0, <2>1, <2>2, HandlerSaves, DiskFrame, SameUsers, SameGroups
  <1>4. CASE req[r].user = u /\ WriteUser(r)
    <2>1. groups' = groups /\ BusyOn(r, u) /\ req[r].at # "removeWrite"
      BY <1>4 DEF WriteUser, BusyOn
    <2>2. req[r].groups = GroupsOf(u)
      BY <1>4, <2>1, UndisturbedMiddle DEF HalfDone, WriteUser
    <2>3. users' = users \/ PutUser(u, req[r].groups)
      BY <1>4 DEF WriteUser
    <2>4. GroupsOf(u)' = GroupsOf(u)
      BY <2>2, <2>3, RequestFields, UserEffect, SameUsers
    <2> QED BY <1>0, <2>1, <2>4, HandlerSaves, DiskFrame, SameGroups
  <1>5. CASE AddGetUser(r) \/ GetUserForUpdate(r)
    <2>1. users' = users /\ groups' = groups /\ req[r].at # "removeWrite"
      BY <1>5 DEF AddGetUser, GetUserForUpdate
    <2> QED BY <1>0, <2>1, HandlerSaves, DiskFrame, SameUsers, SameGroups
  <1>6. CASE req[r].user = u /\ RemoveGetUser(r)
    <2>1. groups' = groups /\ usersFile' = usersFile /\ req[r].at # "removeWrite"
      BY <1>6 DEF RemoveGetUser
    <2>2. PICK g \in Groups : g = req[r].group
      BY RequestFields
    <2>3. CASE users' = users
      BY <1>0, <2>1, <2>3, HandlerSaves, DiskFrame, SameUsers, SameGroups
    <2>4. CASE users' # users
      <3>1. /\ TakeGroups(r, "removeWrite", users[u] \ {g}) /\ PutUser(u, users[u] \ {g})
            /\ g \in GroupsOf(u)
        BY <1>6, <2>2, <2>4 DEF RemoveGetUser
      <3>2. GroupsOf(u) = users[u] /\ users[u] \ {g} \in SUBSET Groups
        BY <3>1, StoreTypes DEF GroupsOf
      <3>3. /\ req' \in [Requests -> Request] /\ req'[r].at = "removeWrite"
            /\ req'[r].user = u /\ req'[r].group = g
        BY <1>6, <2>2, <3>1, <3>2, CopyEffect
      <3>4. g \in Leaving(u)'
        BY <3>3 DEF Leaving, BusyOn
      <3>5. \A h \in Groups \ Leaving(u)' : h \in GroupsOf(u)' <=> h \in GroupsOf(u)
        BY <3>1, <3>2, <3>4, UserEffect
      <3> QED BY <1>0, <2>1, <3>5, HandlerSaves, DiskFrame, SameGroups
    <2> QED BY <2>3, <2>4
  <1> QED BY <1>1, <1>2, <1>3, <1>4, <1>5, <1>6 DEF Handler

\* What the operations of one store call do to an undisturbed user: nothing.
LEMMA CallSides ==
    ASSUME TypeOK, NEW u \in Users, u \notin disturbed',
           \/ \E v \in Users, gs \in SUBSET Groups : CreateUser(v, gs)
           \/ \E v \in Users : DeleteUser(v)
           \/ \E g \in Groups : CreateGroup(g) \/ DeleteGroup(g)
    PROVE  /\ GroupsOf(u)' = GroupsOf(u)
           /\ \A h \in Groups : (u \in MembersOf(h))' <=> u \in MembersOf(h)
           /\ usersFile' = usersFile \/ usersFile' = users'
           /\ groupsFile' = groupsFile \/ groupsFile' = groups'
           /\ req' = req
           /\ users[u] # Absent => users'[u] # Absent
  <1> DEFINE Sides == /\ GroupsOf(u)' = GroupsOf(u)
                      /\ \A h \in Groups : (u \in MembersOf(h))' <=> u \in MembersOf(h)
  <1>1. ASSUME NEW v \in Users, NEW gs \in SUBSET Groups, CreateUser(v, gs)
        PROVE  Sides
    <2>1. users[v] = Absent /\ PutUser(v, gs) /\ groups' = groups
      BY <1>1 DEF CreateUser
    <2>2. v = u => gs = {}
      BY <1>1 DEF CreateUser
    <2> QED BY <2>1, <2>2, UserEffect, SameGroups DEF GroupsOf
  <1>2. ASSUME NEW v \in Users, DeleteUser(v) PROVE Sides
    <2>1. PutUser(v, Absent) /\ groups' = groups /\ v # u
      BY <1>2 DEF DeleteUser
    <2>2. GroupsOf(u)' = GroupsOf(u)
      BY <2>1 DEF GroupsOf, PutUser, TypeOK
    <2> QED BY <2>1, <2>2, SameGroups
  <1>3. ASSUME NEW g \in Groups, CreateGroup(g) PROVE Sides
    <2>1. groups[g] = Absent /\ PutGroup(g, {}) /\ users' = users
      BY <1>3 DEF CreateGroup
    <2>2. \A h \in Groups : MembersOf(h)' = MembersOf(h)
      BY <2>1, GroupEffect DEF MembersOf
    <2> QED BY <2>1, <2>2, SameUsers
  <1>4. ASSUME NEW g \in Groups, DeleteGroup(g) PROVE Sides
    <2>1. groups[g] # Absent /\ PutGroup(g, Absent) /\ users' = users
      BY <1>4 DEF DeleteGroup
    <2>2. u \notin MembersOf(g)
      BY <1>4, <2>1 DEF DeleteGroup, MembersOf
    <2>3. MembersOf(g)' = {} /\ \A h \in Groups \ {g} : MembersOf(h)' = MembersOf(h)
      BY <2>1 DEF MembersOf, PutGroup, TypeOK
    <2> QED BY <2>1, <2>2, <2>3, SameUsers
  <1>5. /\ usersFile' = usersFile \/ usersFile' = users'
        /\ groupsFile' = groupsFile \/ groupsFile' = groups'
        /\ req' = req
    BY DEF CreateUser, DeleteUser, CreateGroup, DeleteGroup, SaveUsers, SaveGroups
  <1>6. users[u] # Absent => users'[u] # Absent
    BY DEF CreateUser, DeleteUser, CreateGroup, DeleteGroup, PutUser, TypeOK
  <1> QED BY <1>1, <1>2, <1>3, <1>4, <1>5, <1>6

\* The operations of one store call.
LEMMA CallStep ==
    ASSUME TypeOK, NEW u \in Users, u \notin disturbed', UserInv(u), OnDisk(u),
           \/ \E v \in Users, gs \in SUBSET Groups : CreateUser(v, gs)
           \/ \E v \in Users : DeleteUser(v)
           \/ \E g \in Groups : CreateGroup(g) \/ DeleteGroup(g)
    PROVE  UserInv(u)' /\ OnDisk(u)'
  <1>1. UserInv(u)'
    BY CallSides, Frame DEF BusyOn
  <1>2. OnDisk(u)'
    BY CallSides, DiskFrame DEF Leaving, BusyOn
  <1> QED BY <1>1, <1>2

\* A restart brings back what the memory told of an undisturbed user, who has
\* no request left.
LEMMA RestartStep ==
    ASSUME TypeOK, NEW u \in Users, u \notin disturbed', UserInv(u), OnDisk(u),
           Restart
    PROVE  UserInv(u)' /\ OnDisk(u)'
  <1>1. Idle(u) /\ users' = usersFile /\ groups' = groupsFile
    BY DEF Restart
  <1>0. Leaving(u) = {}
    BY <1>1 DEF Leaving, Idle
  <1>2. \A r \in Requests : ~BusyOn(r, u)
    BY <1>1 DEF Idle
  <1>3. \A r \in Requests : req'[r].at \in Waiting
    <2> SUFFICES ASSUME NEW r \in Requests PROVE req'[r].at \in Waiting
      OBVIOUS
    <2>1. CASE req[r].at \in Waiting
      BY <2>1 DEF Restart
    <2>2. CASE req[r].at \notin Waiting
      <3>1. req[r] \in Request
        BY DEF TypeOK
      <3>2. req'[r] = [req[r] EXCEPT !.at = "failed", !.groups = {}, !.members = {}]
        BY <2>2 DEF Restart
      <3>3. [req[r] EXCEPT !.at = "failed", !.groups = {}, !.members = {}].at = "failed"
        BY <3>1 DEF Request
      <3> QED BY <3>2, <3>3
    <2> QED BY <2>1, <2>2
  <1>4. \A r \in Requests : ~BusyOn(r, u)'
    BY <1>3 DEF BusyOn
  <1>5. \A h \in Groups : h \in GroupsOf(u)' <=> h \in GroupsOf(u)
    BY <1>0, <1>1 DEF OnDisk, GroupsOf
  <1>6. \A h \in Groups : (u \in MembersOf(h))' <=> u \in MembersOf(h)
    BY <1>1 DEF OnDisk, MembersOf
  <1>7. UserInv(u)'
    <2>1. Agree(u)
      BY <1>1 DEF UserInv
    <2>2. Agree(u)'
      BY <1>5, <1>6, <2>1 DEF Agree
    <2> QED BY <1>4, <2>2 DEF UserInv
  <1>8. OnDisk(u)'
    <2>1. usersFile' = users' /\ groupsFile' = groups'
      BY <1>1 DEF Restart
    <2> QED BY <2>1, DiskFrame
  <1> QED BY <1>7, <1>8

LEMMA DisturbedGrows == TypeOK /\ [Next]_vars => disturbed \subseteq disturbed'
  <1> SUFFICES ASSUME TypeOK, [Next]_vars PROVE disturbed \subseteq disturbed'
    OBVIOUS
  <1>1. ASSUME NEW r \in Requests, Handler(r) PROVE disturbed \subseteq disturbed'
    BY <1>1 DEF Handler, Disturb, AddMember, AddGetUser, AddWriteUser, AddRollback,
           RemoveMember, RemoveGetUser, RemoveWriteUser, GetUserForUpdate,
           WriteUser, GetGroupForUpdate, WriteGroup
  <1>2. CASE Restart
    BY <1>2 DEF Restart, TypeOK
  <1> QED BY <1>1, <1>2 DEF Next, Change, vars, CreateUser, DeleteUser, CreateGroup, DeleteGroup

LEMMA InitIInv == Init => IInv
  <1>1. Init => \A u \in Users : OnDisk(u)
    BY DEF Init, OnDisk, GroupsOf, MembersOf
  <1>2. Init => CopiesCurrent
    BY DEF Init, CopiesCurrent
  <1> QED BY <1>1, <1>2, InitTypeOK, InitUserInv DEF IInv

\* A request takes its copy of the group as it is, and keeps it until it is written back.
LEMMA NextCopies == TypeOK /\ CopiesCurrent /\ [Next]_vars => CopiesCurrent'
  <1> SUFFICES ASSUME TypeOK, CopiesCurrent, [Next]_vars,
                      NEW r \in Requests, req'[r].at = "groupWrite",
                      NEW u \in Users, u \notin edited'[r]
               PROVE  u \in req'[r].members <=> u \in MembersOf(req[r].group)'
    BY DEF CopiesCurrent
  <1>1. CASE UNCHANGED vars
    BY <1>1 DEF vars, CopiesCurrent, MembersOf
  <1>2. CASE Watch /\ req'[r] = req[r]
    <2>1. /\ u \notin edited[r]
          /\ (u \in MembersOf(req[r].group)') <=> u \in MembersOf(req[r].group)
      BY <1>2 DEF Watch
    <2>2. u \in req[r].members <=> u \in MembersOf(req[r].group)
      BY <1>2, <2>1 DEF CopiesCurrent
    <2> QED BY <1>2, <2>1, <2>2
  <1>3. CASE Next /\ req'[r] # req[r]
    <2>1. ~Restart
      <3>1. /\ req[r].at \in Waiting => req[r].at # "groupWrite"
            /\ [req[r] EXCEPT !.at = "failed", !.groups = {}, !.members = {}].at = "failed"
        BY DEF TypeOK, Request
      <3> QED BY <1>3, <3>1 DEF Restart
    <2>2. PICK s \in Requests : Handler(s)
      BY <1>3, <2>1 DEF Next, Change, CreateUser, DeleteUser, CreateGroup, DeleteGroup
    <2>3. Handler(r)
      BY <1>3, <2>2, HandlerRequest
    <2>4. GetGroupForUpdate(r)
      <3>1. ASSUME NEW step \in Steps, Goto(r, step), step # "groupWrite" PROVE FALSE
        BY <3>1, GotoEffect
      <3>2. ASSUME NEW result \in Waiting, Return(r, result) PROVE FALSE
        BY <3>2, ReturnEffect
      <3>3. ASSUME NEW step \in Steps, NEW gs, TakeGroups(r, step, gs), step # "groupWrite"
            PROVE  FALSE
        BY <3>3 DEF TakeGroups, TypeOK, Request
      <3> QED BY <2>3, <3>1, <3>2, <3>3
            DEF Handler, AddMember, AddGetUser, AddWriteUser, AddRollback, RemoveMember,
                RemoveGetUser, RemoveWriteUser, GetUserForUpdate, WriteUser, WriteGroup
    <2>5. PICK g \in Groups : g = req[r].group
      BY RequestFields
    <2>6. groups[g] # Absent /\ TakeMembers(r, "groupWrite", groups[g]) /\ groups' = groups
      BY <2>4, <2>5, ReturnEffect DEF GetGroupForUpdate
    <2>7. groups[g] \in SUBSET Users
      BY <2>6, StoreTypes
    <2>8. req'[r].group = g /\ req'[r].members = groups[g]
      BY <2>5, <2>6, <2>7, MembersEffect
    <2> QED BY <2>6, <2>8 DEF MembersOf
  <1> QED BY <1>1, <1>2, <1>3 DEF Next

LEMMA NextIInv == IInv /\ [Next]_vars => IInv'
  <1> SUFFICES ASSUME IInv, [Next]_vars PROVE IInv'
    OBVIOUS
  <1>1. TypeOK /\ TypeOK' /\ CopiesCurrent /\ CopiesCurrent'
    BY NextTypeOK, NextCopies DEF IInv
  <1>2. ASSUME NEW u \in Users, u \notin disturbed' PROVE UserInv(u)' /\ OnDisk(u)'
    <2>1. UserInv(u) /\ OnDisk(u)
      BY <1>1, <1>2, DisturbedGrows DEF IInv
    <2>2. ASSUME NEW r \in Requests, Handler(r) PROVE UserInv(u)' /\ OnDisk(u)'
      <3>1. req[r].user # u \/ GetGroupForUpdate(r) \/ WriteGroup(r) => UserInv(u)'
        BY <1>1, <1>2, <2>1, <2>2, OtherStep
      <3>2. req[r].user = u /\ ~(GetGroupForUpdate(r) \/ WriteGroup(r)) => UserInv(u)'
        BY <1>1, <1>2, <2>1, <2>2, AddStep, RemoveStep, UpdateStep DEF Handler
      <3>3. OnDisk(u)'
        BY <1>1, <1>2, <2>1, <2>2, HandlerOnDisk
      <3> QED BY <3>1, <3>2, <3>3
    <2>3. CASE UNCHANGED vars
      <3>1. UserInv(u)'
        BY <1>1, <2>1, <2>3, Frame, SameUsers, SameGroups DEF vars, BusyOn
      <3>2. OnDisk(u)'
        BY <2>1, <2>3, DiskFrame, SameUsers, SameGroups DEF vars, Leaving, BusyOn
      <3> QED BY <3>1, <3>2
    <2> QED BY <1>1, <1>2, <2>1, <2>2, <2>3, CallStep, RestartStep DEF Next, Change
  <1> QED BY <1>1, <1>2 DEF IInv

\* Whatever the requests, their interleaving, the disk and restarts do: the two
\* stores agree about every user at rest that no uncoordinated change of the
\* code (AddUserToGroup, RemoveUserFromGroup and the others) has reached.
THEOREM StoresAgree == Spec => []AgreeAtRest
  <1>1. IInv => AgreeAtRest
    BY DEF IInv, UserInv, AgreeAtRest
  <1> QED BY <1>1, InitIInv, NextIInv, PTL DEF Spec

\* In the middle of a request only its own group differs, and its copy of the
\* user is current, so that userStore.Update with the copy loses nothing.
THEOREM NoLostUpdate == Spec => []OnlyOwnGroupDiffers
  <1>1. IInv => OnlyOwnGroupDiffers
    BY DEF IInv, UserInv, OnlyOwnGroupDiffers
  <1> QED BY <1>1, InitIInv, NextIInv, PTL DEF Spec

\* The files tell of every undisturbed user what the memory tells, so that
\* loadFromFile brings its memberships back, whatever saveToFile of other
\* users' changes has failed.
THEOREM MembershipsSurvive == Spec => []RestartKeepsMemberships
  <1>1. IInv => RestartKeepsMemberships
    BY DEF IInv, RestartKeepsMemberships
  <1> QED BY <1>1, InitIInv, NextIInv, PTL DEF Spec

-----------------------------------------------------------------------------
(* What the answers tell.                                                  *)

\* What AnswersAreTrue says of a step that r answers about u and g with.
TrueAnswer(r, u, g) ==
    /\ Finishes(r, AddSteps, "ok") => u \in MembersOf(g)' /\ g \in GroupsOf(u)'
    /\ Finishes(r, AddSteps, "failed") \/ Finishes(r, RemoveSteps, "ok") =>
          u \notin MembersOf(g)' /\ g \notin GroupsOf(u)'

\* The answering steps of a request that was half done on u and g.
LEMMA AnswerOfHandler ==
    ASSUME TypeOK, NEW r \in Requests, NEW u \in Users, NEW g \in Groups,
           req[r].user = u, req[r].group = g, u \notin disturbed',
           req[r].at \in AddSteps \cup RemoveSteps, HalfDone(r, u, g), Handler(r)
    PROVE  TrueAnswer(r, u, g)
  <1>1. CASE AddGetUser(r)
    <2>1. users' = users /\ groups' = groups /\ req[r].at = "addGet"
      BY <1>1 DEF AddGetUser
    <2>2. g \notin GroupsOf(u)
      BY <2>1 DEF HalfDone
    <2>3. Goto(r, "addRollback") \/ TakeGroups(r, "addWrite", users[u] \cup {g})
      BY <1>1, <2>2 DEF AddGetUser, GroupsOf
    <2>4. users[u] # Absent => users[u] \cup {g} \in SUBSET Groups
      BY StoreTypes
    <2>5. req'[r].at \in {"addRollback", "addWrite"}
      BY <2>3, <2>4, GotoEffect DEF TakeGroups, TypeOK, Request
    <2> QED BY <2>5 DEF TrueAnswer, Finishes
  <1>2. CASE AddWriteUser(r)
    <2>1. groups' = groups /\ req[r].at = "addWrite"
      BY <1>2 DEF AddWriteUser
    <2>2. u \in MembersOf(g) /\ req[r].groups = GroupsOf(u) \cup {g}
      BY <2>1 DEF HalfDone
    <2>3. \/ Goto(r, "addRollback")
          \/ Return(r, "ok") /\ PutUser(u, req[r].groups)
      BY <1>2 DEF AddWriteUser
    <2>4. CASE Goto(r, "addRollback")
      BY <2>1, <2>4, GotoEffect DEF TrueAnswer, Finishes
    <2>5. CASE Return(r, "ok") /\ PutUser(u, req[r].groups)
      <3>1. g \in GroupsOf(u)'
        BY <2>2, <2>5, UserEffect, RequestFields
      <3>2. u \in MembersOf(g)'
        BY <2>1, <2>2, SameGroups
      <3>3. req'[r].at = "ok"
        BY <2>5, ReturnEffect
      <3> QED BY <2>1, <3>1, <3>2, <3>3 DEF TrueAnswer, Finishes
    <2> QED BY <2>3, <2>4, <2>5
  <1>3. CASE AddRollback(r)
    <2>1. users' = users /\ Return(r, "failed") /\ req[r].at = "addRollback"
      BY <1>3 DEF AddRollback
    <2>2. u \in MembersOf(g) /\ g \notin GroupsOf(u)
      BY <2>1 DEF HalfDone
    <2>3. PutGroup(g, groups[g] \ {u}) /\ groups[g] # Absent
      BY <1>3, <2>2 DEF AddRollback, IsMember, MembersOf
    <2>4. u \notin MembersOf(g)'
      BY <2>3, StoreTypes, GroupEffect
    <2>5. g \notin GroupsOf(u)'
      BY <2>1, <2>2, SameUsers
    <2>6. req'[r].at = "failed"
      BY <2>1, ReturnEffect
    <2> QED BY <2>4, <2>5, <2>6 DEF TrueAnswer, Finishes
  <1>4. CASE RemoveGetUser(r)
    <2>1. req[r].at = "removeGet"
      BY <1>4 DEF RemoveGetUser
    <2>2. g \in GroupsOf(u)
      BY <2>1 DEF HalfDone
    <2>3. TakeGroups(r, "removeWrite", users[u] \ {g})
      BY <1>4, <2>2 DEF RemoveGetUser
    <2>4. req'[r].at = "removeWrite"
      BY <2>3 DEF TakeGroups, TypeOK, Request
    <2> QED BY <2>4 DEF TrueAnswer, Finishes
  <1>5. CASE RemoveWriteUser(r)
    <2>1. groups' = groups /\ req[r].at = "removeWrite"
      BY <1>5 DEF RemoveWriteUser
    <2>2. /\ u \notin MembersOf(g) /\ users[u] # Absent
          /\ req[r].groups = GroupsOf(u) \ {g}
      BY <2>1 DEF HalfDone
    <2>3. PutUser(u, req[r].groups)
      BY <1>5, <2>2 DEF RemoveWriteUser
    <2>4. g \notin GroupsOf(u)'
      BY <2>2, <2>3, UserEffect, RequestFields
    <2>5. u \notin MembersOf(g)'
      BY <2>1, <2>2, SameGroups
    <2> QED BY <2>1, <2>4, <2>5 DEF TrueAnswer, Finishes
  <1>6. CASE \/ AddMember(r) \/ RemoveMember(r) \/ GetUserForUpdate(r)
             \/ WriteUser(r) \/ GetGroupForUpdate(r) \/ WriteGroup(r)
    <2>1. req[r].at \in {"new", "userWrite", "groupWrite"}
      BY <1>6 DEF AddMember, RemoveMember, GetUserForUpdate, WriteUser,
                 GetGroupForUpdate, WriteGroup
    <2> QED BY <2>1
  <1> QED BY <1>1, <1>2, <1>3, <1>4, <1>5, <1>6 DEF Handler

\* AddUserToGroup and RemoveUserFromGroup answer the truth about every user
\* that no uncoordinated change has reached, rollbacks included.
THEOREM TrueAnswers == Spec => AnswersAreTrue
  <1>1. ASSUME IInv, [Next]_vars,
               NEW r \in Requests, NEW u \in Users \ disturbed', NEW g \in Groups,
               req[r].user = u, req[r].group = g
        PROVE  TrueAnswer(r, u, g)
    <2>1. TypeOK /\ u \notin disturbed /\ UserInv(u)
      BY <1>1, DisturbedGrows DEF IInv
    <2>2. CASE req'[r].at = req[r].at \/ req[r].at \notin AddSteps \cup RemoveSteps
      BY <2>2 DEF TrueAnswer, Finishes
    <2>3. CASE req'[r].at # req[r].at /\ req[r].at \in AddSteps \cup RemoveSteps
      <3>1. BusyOn(r, u)
        BY <1>1, <2>3 DEF BusyOn
      <3>2. HalfDone(r, u, g)
        BY <1>1, <2>1, <3>1 DEF UserInv
      <3>3. Handler(r) \/ Restart
        <4>1. \/ \E s \in Requests : Handler(s)
              \/ Restart
              \/ req' = req
          BY <1>1 DEF Next, Change, vars, CreateUser, DeleteUser, CreateGroup, DeleteGroup
        <4>2. ASSUME NEW s \in Requests, Handler(s), s # r PROVE FALSE
          BY <2>1, <2>3, <4>2, HandlerRequest
        <4> QED BY <2>3, <4>1, <4>2
      <3>4. ~Restart
        BY <1>1, <3>1 DEF Restart, Idle
      <3> QED BY <1>1, <2>1, <2>3, <3>2, <3>3, <3>4, AnswerOfHandler
    <2> QED BY <2>2, <2>3
  <1>2. IInv /\ [Next]_vars =>
          [\A r \in Requests, u \in Users \ disturbed', g \in Groups :
             req[r].user = u /\ req[r].group = g =>
                /\ Finishes(r, AddSteps, "ok") =>
                      u \in MembersOf(g)' /\ g \in GroupsOf(u)'
                /\ Finishes(r, AddSteps, "failed") \/ Finishes(r, RemoveSteps, "ok") =>
                      u \notin MembersOf(g)' /\ g \notin GroupsOf(u)']_vars
    BY <1>1 DEF TrueAnswer
  <1> QED BY <1>2, InitIInv, NextIInv, PTL DEF Spec, AnswersAreTrue

-----------------------------------------------------------------------------
(* Access.                                                                 *)


USE DEF Questions, Changes, Sharing, Answered

\* Everything that request c may still decide by is among gs.
Within(c, gs) ==
    /\ c.left \subseteq gs
    /\ c.via \in gs \cup {Absent}
    /\ c.op = "list" /\ c.at = "sharing" => c.group \in gs

AInv ==
    /\ AccessTypeOK
    /\ \A h \in Handlers :
          (call[h] # Absent /\ call[h].user \notin disturbed) => Within(call[h], was[h])

-----------------------------------------------------------------------------
\* The user store's groups of an undisturbed user all count for the group store.
LEMMA GroupsCount ==
    ASSUME IInv, NEW u \in Users, u \notin disturbed
    PROVE  GroupsOf(u) \subseteq Counting(u)
<1>1. UserInv(u) /\ GroupsOf(u) \subseteq Groups
  BY StoreTypes DEF IInv
<1>2. SUFFICES ASSUME NEW g \in Groups, g \in GroupsOf(u),
                      \A r \in Requests : BusyOn(r, u) => req[r].group # g
               PROVE  u \in MembersOf(g)
  BY <1>1 DEF Counting
<1>3. CASE Idle(u)
  BY <1>1, <1>2, <1>3 DEF UserInv, Agree
<1>4. CASE ~Idle(u)
  <2>1. PICK r \in Requests : BusyOn(r, u)
    BY <1>4 DEF Idle
  <2>2. HalfDone(r, u, req[r].group) /\ req[r].group # g
    BY <1>1, <1>2, <2>1 DEF UserInv
  <2> QED
    BY <1>2, <2>2 DEF HalfDone
<1> QED
  BY <1>3, <1>4

LEMMA SameCounting ==
    ASSUME NEW u \in Users, UNCHANGED vars
    PROVE  Counting(u)' = Counting(u)
  BY DEF Counting, MembersOf, BusyOn, vars

-----------------------------------------------------------------------------
\* What becomes of a request that takes a step.
LEMMA ConsiderEffect ==
    ASSUME AccessTypeOK, NEW h \in Handlers, call[h] # Absent,
           NEW step \in {"managing", "reading", "sharing", "assigning", "denied"},
           NEW gs \in SUBSET Groups, Consider(h, step, gs)
    PROVE  /\ call' \in [Handlers -> Call \cup {Absent}]
           /\ \A k \in Handlers \ {h} : call'[k] = call[k]
           /\ call'[h] # Absent => /\ call'[h].user = call[h].user
                                   /\ call'[h].op = call[h].op
                                   /\ call'[h].group = call[h].group
                                   /\ call'[h].via = call[h].via
                                   /\ call'[h].at = step
                                   /\ call'[h].left = gs
<1> DEFINE c == [call[h] EXCEPT !.at = step, !.left = gs]
<1>1. call[h] \in Call
  BY DEF AccessTypeOK
<1>2. /\ c \in Call
      /\ c.user = call[h].user /\ c.op = call[h].op /\ c.group = call[h].group
      /\ c.via = call[h].via /\ c.at = step /\ c.left = gs
  <2>1. c \in Call
    BY <1>1 DEF Call
  <2>2. c.user = call[h].user /\ c.op = call[h].op /\ c.group = call[h].group
    BY <1>1 DEF Call
  <2>3. c.via = call[h].via /\ c.at = step /\ c.left = gs
    BY <1>1 DEF Call
  <2> QED
    BY <2>1, <2>2, <2>3
<1>3. call' = [call EXCEPT ![h] = c]
  BY Zenon DEF Consider
<1> HIDE DEF c
<1> QED
  BY <1>2, <1>3 DEF AccessTypeOK

LEMMA ProceedEffect ==
    ASSUME AccessTypeOK, NEW h \in Handlers, call[h] # Absent,
           NEW step \in {"manager", "own", "user", "owner", "permission", "act"} \cup Answered,
           Proceed(h, step)
    PROVE  /\ call' \in [Handlers -> Call \cup {Absent}]
           /\ \A k \in Handlers \ {h} : call'[k] = call[k]
           /\ call'[h] # Absent => /\ call'[h].user = call[h].user
                                   /\ call'[h].via = call[h].via
                                   /\ call'[h].at = step
                                   /\ call'[h].left = call[h].left
<1> DEFINE c == [call[h] EXCEPT !.at = step]
<1>1. call[h] \in Call
  BY DEF AccessTypeOK
<1>2. /\ c \in Call
      /\ c.user = call[h].user /\ c.via = call[h].via /\ c.at = step /\ c.left = call[h].left
  BY <1>1 DEF Call, Answered
<1>3. call' = [call EXCEPT ![h] = c]
  BY DEF Proceed, AccessTypeOK
<1> HIDE DEF c
<1> QED
  BY <1>2, <1>3 DEF AccessTypeOK

LEMMA AllowEffect ==
    ASSUME AccessTypeOK, NEW h \in Handlers, call[h] # Absent,
           NEW g \in Groups \cup {Absent}, Allow(h, g)
    PROVE  /\ call' \in [Handlers -> Call \cup {Absent}]
           /\ \A k \in Handlers \ {h} : call'[k] = call[k]
           /\ call'[h] # Absent => /\ call'[h].user = call[h].user
                                   /\ call'[h].via \in {g, call[h].via}
                                   /\ call'[h].at # "sharing"
                                   /\ call'[h].left = {}
<1> DEFINE c == [call[h] EXCEPT !.at = "adapter", !.left = {}, !.again = TRUE]
           d == [call[h] EXCEPT !.at = AfterAllow(call[h].op), !.left = {}, !.via = g]
<1>1. call[h] \in Call
  BY DEF AccessTypeOK
<1>2. AfterAllow(call[h].op) \in {"granted", "target", "act"}
  BY <1>1 DEF AfterAllow, Call
<1>3. /\ c \in Call /\ c.user = call[h].user /\ c.via = call[h].via
      /\ c.at # "sharing" /\ c.left = {}
  <2>1. c \in Call
    BY <1>1 DEF Call
  <2>2. c.user = call[h].user /\ c.via = call[h].via
    BY <1>1 DEF Call
  <2>3. c.at # "sharing" /\ c.left = {}
    BY <1>1 DEF Call
  <2> QED
    BY <2>1, <2>2, <2>3
<1>4. /\ d \in Call /\ d.user = call[h].user /\ d.via = g
      /\ d.at # "sharing" /\ d.left = {}
  <2>1. d \in Call
    BY <1>1, <1>2 DEF Call, Answered
  <2>2. d.user = call[h].user /\ d.via = g
    BY <1>1 DEF Call
  <2>3. d.at # "sharing" /\ d.left = {}
    BY <1>1, <1>2 DEF Call
  <2> QED
    BY <2>1, <2>2, <2>3
<1>5. call' = [call EXCEPT ![h] = c] \/ call' = [call EXCEPT ![h] = d]
  BY Zenon DEF Allow
<1> HIDE DEF c, d
<1> QED
  BY <1>3, <1>4, <1>5 DEF AccessTypeOK

-----------------------------------------------------------------------------
\* A step of the request in h touches no other request, and what the request
\* decides by stays within any groups that have the user's.
Kept(h) ==
    /\ call' \in [Handlers -> Call \cup {Absent}]
    /\ \A k \in Handlers \ {h} : call'[k] = call[k]
    /\ \A gs \in SUBSET Groups :
          /\ call[h] # Absent => Within(call[h], gs) /\ GroupsOf(call[h].user) \subseteq gs
          /\ call'[h] # Absent
          => Within(call'[h], gs)
    /\ (call[h] # Absent /\ call'[h] # Absent) => call'[h].user = call[h].user

LEMMA CallFields ==
    ASSUME AccessTypeOK, NEW h \in Handlers, call[h] # Absent
    PROVE  /\ call[h].user \in Users /\ call[h].adapter \in Adapters
           /\ call[h].left \in SUBSET Groups
           /\ call[h].via \in Groups \cup {Absent}
           /\ call[h].group \in Groups \cup {Absent}
           /\ call[h].op \in Questions \cup Changes \cup Sharing
  BY DEF AccessTypeOK, Call

LEMMA KeptByConsider ==
    ASSUME AccessTypeOK, NEW h \in Handlers, call[h] # Absent,
           NEW step \in {"managing", "reading", "sharing", "assigning", "denied"},
           NEW gs \in SUBSET Groups, Consider(h, step, gs),
           gs \subseteq call[h].left \cup GroupsOf(call[h].user),
           step = "sharing" => call[h].op # "list"
    PROVE  Kept(h)
  BY ConsiderEffect DEF Kept, Within

LEMMA KeptByProceed ==
    ASSUME AccessTypeOK, NEW h \in Handlers, call[h] # Absent,
           NEW step \in {"manager", "own", "user", "owner", "permission", "act"} \cup Answered,
           Proceed(h, step)
    PROVE  Kept(h)
  BY ProceedEffect DEF Kept, Within, Answered

LEMMA KeptByAllow ==
    ASSUME AccessTypeOK, NEW h \in Handlers, call[h] # Absent,
           NEW g \in Groups \cup {Absent}, Allow(h, g),
           \/ g \in call[h].left \cup {Absent}
           \/ call[h].op = "list" /\ call[h].at = "sharing" /\ g = call[h].group
    PROVE  Kept(h)
  BY AllowEffect DEF Kept, Within

LEMMA KeptByList ==
    ASSUME AccessTypeOK, NEW h \in Handlers, call[h] # Absent,
           NEW g \in Groups \cup {Absent}, ListBy(h, g),
           \/ g \in call[h].left \cup {Absent}
           \/ call[h].op = "list" /\ call[h].at = "sharing" /\ g = call[h].group
    PROVE  Kept(h)
<1> DEFINE c == [call[h] EXCEPT !.at = "all", !.left = {}, !.via = g]
<1>1. call[h] \in Call
  BY DEF AccessTypeOK
<1>2. c \in Call /\ c.left = {} /\ c.via = g /\ c.at # "sharing" /\ c.user = call[h].user
  <2>1. c \in Call
    BY <1>1 DEF Call
  <2>2. c.left = {} /\ c.via = g /\ c.at # "sharing" /\ c.user = call[h].user
    BY <1>1 DEF Call
  <2> QED
    BY <2>1, <2>2
<1>3. call' = [call EXCEPT ![h] = c]
  BY Zenon DEF ListBy
<1> HIDE DEF c
<1> QED
  BY <1>2, <1>3 DEF Kept, Within, AccessTypeOK

LEMMA KeptByDeny ==
    ASSUME AccessTypeOK, NEW h \in Handlers, call[h] # Absent, Deny(h)
    PROVE  Kept(h)
  BY KeptByConsider DEF Deny

-----------------------------------------------------------------------------
(* The steps of a request.                                                 *)

LEMMA BeginStep ==
    ASSUME AccessTypeOK, NEW h \in Handlers, Begin(h)
    PROVE  Kept(h)
<1>1. PICK op \in Serves[h], u \in Users, a \in Adapters,
           g \in Groups \cup {Absent}, level \in Levels \cup {Absent} :
         /\ g = Absent <=> op \notin Sharing
         /\ level = Absent <=> op # "share"
         /\ call' = [call EXCEPT ![h] =
               [op |-> op, user |-> u, adapter |-> a, group |-> g, level |-> level,
                at |-> IF op \in {"get"} \cup Changes THEN "adapter" ELSE "manager",
                left |-> {}, via |-> Absent, again |-> FALSE]]
  BY DEF Begin
<1>2. op \in Questions \cup Changes \cup Sharing
  BY AccessAssumption
<1> DEFINE c == [op |-> op, user |-> u, adapter |-> a, group |-> g, level |-> level,
                 at |-> IF op \in {"get"} \cup Changes THEN "adapter" ELSE "manager",
                 left |-> {}, via |-> Absent, again |-> FALSE]
<1>3. c \in Call /\ c.left = {} /\ c.via = Absent /\ c.at # "sharing"
  BY <1>2 DEF Call
<1>4. call' = [call EXCEPT ![h] = c]
  BY <1>1
<1>5. call[h] = Absent
  BY DEF Begin
<1> HIDE DEF c
<1> QED
  BY <1>3, <1>4, <1>5 DEF Kept, Within, AccessTypeOK

LEMMA LeaveStep ==
    ASSUME AccessTypeOK, NEW h \in Handlers, Leave(h)
    PROVE  Kept(h)
  BY DEF Leave, Kept, AccessTypeOK

\* The steps that look at one group choose it from those left.
LEMMA ManagerStep ==
    ASSUME AccessTypeOK, NEW h \in Handlers, CheckManager(h)
    PROVE  Kept(h)
<1>1. call[h] # Absent
  BY DEF CheckManager, At
<1>2. call[h].left \in SUBSET Groups
  BY <1>1, CallFields
<1>3. CASE Proceed(h, IF call[h].op = "list" THEN "own" ELSE "user")
  BY <1>1, <1>3, KeptByProceed
<1>4. ASSUME NEW g \in call[h].left, Consider(h, "managing", call[h].left \ {g})
      PROVE  Kept(h)
  BY <1>1, <1>2, <1>4, KeptByConsider
<1>5. ASSUME NEW g \in call[h].left, ListBy(h, g) PROVE Kept(h)
  BY <1>1, <1>2, <1>5, KeptByList
<1>6. ASSUME NEW g \in call[h].left, Allow(h, g) PROVE Kept(h)
  BY <1>1, <1>2, <1>6, KeptByAllow
<1> QED
  BY <1>3, <1>4, <1>5, <1>6 DEF CheckManager

LEMMA ReadingStep ==
    ASSUME AccessTypeOK, NEW h \in Handlers, CheckReading(h)
    PROVE  Kept(h)
<1>1. call[h] # Absent
  BY DEF CheckReading, At
<1>2. call[h].left \in SUBSET Groups
  BY <1>1, CallFields
<1>3. ASSUME NEW g \in call[h].left,
             call' = [call EXCEPT ![h].at = "sharing", ![h].group = g]
      PROVE  Kept(h)
  <2> DEFINE c == [call[h] EXCEPT !.at = "sharing", !.group = g]
  <2>1. call[h] \in Call
    BY <1>1 DEF AccessTypeOK
  <2>2. /\ c \in Call /\ c.left = call[h].left /\ c.via = call[h].via
        /\ c.group = g /\ c.user = call[h].user
    BY <1>2, <2>1 DEF Call
  <2>3. call' = [call EXCEPT ![h] = c]
    BY <1>3 DEF AccessTypeOK
  <2> HIDE DEF c
  <2> QED
    BY <1>1, <1>2, <2>2, <2>3 DEF Kept, Within, AccessTypeOK
<1>4. ASSUME NEW g \in call[h].left, Consider(h, "reading", call[h].left \ {g})
      PROVE  Kept(h)
  BY <1>1, <1>2, <1>4, KeptByConsider
<1> QED
  BY <1>1, <1>3, <1>4, KeptByDeny DEF CheckReading

LEMMA SharingStep ==
    ASSUME AccessTypeOK, NEW h \in Handlers, HasAccess(h)
    PROVE  Kept(h)
<1>1. call[h] # Absent /\ call[h].at = "sharing"
  BY DEF HasAccess, At
<1>2. /\ call[h].left \in SUBSET Groups
      /\ call[h].group \in Groups \cup {Absent}
  BY <1>1, CallFields
<1> DEFINE chosen == IF call[h].op = "list" THEN {call[h].group} ELSE call[h].left
<1>3. ASSUME NEW g \in chosen, Allow(h, g) \/ ListBy(h, g) PROVE Kept(h)
  BY <1>1, <1>2, <1>3, KeptByAllow, KeptByList
<1>4. ASSUME NEW g \in chosen,
             Consider(h, IF call[h].op = "list" THEN "reading" ELSE "sharing", call[h].left \ {g})
      PROVE  Kept(h)
  <2>1. call[h].left \ {g} \in SUBSET Groups
    BY <1>2
  <2>2. call[h].left \ {g} \subseteq call[h].left \cup GroupsOf(call[h].user)
    OBVIOUS
  <2>3. CASE call[h].op = "list"
    BY <1>1, <1>4, <2>1, <2>2, <2>3, KeptByConsider
  <2>4. CASE call[h].op # "list"
    BY <1>1, <1>4, <2>1, <2>2, <2>4, KeptByConsider
  <2> QED
    BY <2>3, <2>4
<1> QED
  BY <1>1, <1>3, <1>4, KeptByDeny DEF HasAccess

LEMMA AssigningStep ==
    ASSUME AccessTypeOK, NEW h \in Handlers, CheckAssigning(h)
    PROVE  Kept(h)
<1>1. call[h] # Absent
  BY DEF CheckAssigning, At
<1>2. call[h].left \in SUBSET Groups
  BY <1>1, CallFields
<1>3. ASSUME NEW g \in call[h].left, Allow(h, g) PROVE Kept(h)
  BY <1>1, <1>2, <1>3, KeptByAllow
<1>4. ASSUME NEW g \in call[h].left, Consider(h, "assigning", call[h].left \ {g})
      PROVE  Kept(h)
  BY <1>1, <1>2, <1>4, KeptByConsider
<1> QED
  BY <1>1, <1>3, <1>4, KeptByProceed, KeptByDeny DEF CheckAssigning

\* The steps that read the user take the groups that the user has now.
LEMMA ReadStep ==
    ASSUME TypeOK, AccessTypeOK, NEW h \in Handlers, CanManageGroups(h) \/ GetUser(h)
    PROVE  Kept(h)
<1>1. call[h] # Absent
  BY DEF CanManageGroups, GetUser, At
<1>2. GroupsOf(call[h].user) \in SUBSET Groups
  BY <1>1, CallFields, StoreTypes
<1>3. CASE CanManageGroups(h)
  BY <1>1, <1>2, <1>3, KeptByConsider DEF CanManageGroups
<1>4. CASE GetUser(h)
  <2>1. PICK step \in {"reading", "assigning", "sharing"} :
           /\ Consider(h, step, GroupsOf(call[h].user))
           /\ step = "sharing" => call[h].op # "list"
    <3>1. CASE call[h].op = "list"
      BY <1>4, <3>1 DEF GetUser, AfterUser
    <3>2. CASE call[h].op \in Sharing
      BY <1>4, <3>2 DEF GetUser, AfterUser
    <3>3. CASE call[h].op \notin Sharing \cup {"list"}
      BY <1>4, <3>3 DEF GetUser, AfterUser
    <3> QED
      BY <3>1, <3>2, <3>3
  <2> QED
    BY <1>1, <1>2, <2>1, KeptByConsider
<1> QED
  BY <1>3, <1>4

\* The other steps look at no group.
LEMMA OtherDecisions ==
    ASSUME AccessTypeOK, NEW h \in Handlers,
           GetAdapter(h) \/ ListAll(h) \/ ListOwn(h) \/ CheckOwner(h) \/ CheckTarget(h) \/ Act(h)
    PROVE  Kept(h)
<1>1. call[h] # Absent
  BY DEF GetAdapter, ListAll, ListOwn, CheckOwner, CheckTarget, At, Act,
         UpdateAdapter, DeleteAdapter, AssignAdapterToGroup, RemoveAdapterFromGroup
<1>2. Allow(h, Absent) => Kept(h)
  BY <1>1, KeptByAllow
<1>3. Deny(h) => Kept(h)
  BY <1>1, KeptByDeny
<1>4. ASSUME NEW step \in {"manager", "user", "permission", "act", "granted", "denied"},
             Proceed(h, step)
      PROVE  Kept(h)
  BY <1>1, <1>4, KeptByProceed
<1> QED
  BY <1>2, <1>3, <1>4
     DEF GetAdapter, ListAll, ListOwn, CheckOwner, CheckTarget, Act,
         UpdateAdapter, DeleteAdapter, AssignAdapterToGroup, RemoveAdapterFromGroup

LEMMA HandlerKeeps ==
    ASSUME TypeOK, AccessTypeOK, NEW h \in Handlers, Begin(h) \/ Decide(h) \/ Act(h) \/ Leave(h)
    PROVE  Kept(h)
  BY BeginStep, LeaveStep, ManagerStep, ReadingStep, SharingStep, AssigningStep,
     ReadStep, OtherDecisions DEF Decide

-----------------------------------------------------------------------------
(* The invariant.                                                          *)

LEMMA WithinGrows ==
    ASSUME NEW c \in Call, NEW small, NEW large, Within(c, small), small \subseteq large
    PROVE  Within(c, large)
  BY DEF Within

LEMMA OfMembership == AccessNext => [Next]_vars
  BY DEF AccessNext, Next

LEMMA ObservedType ==
    ASSUME AccessTypeOK, Observe
    PROVE  was' \in [Handlers -> SUBSET Groups] /\ calm' \in [Handlers -> BOOLEAN]
<1>1. ASSUME NEW h \in Handlers PROVE CountingFor(h)' \in SUBSET Groups
  BY DEF CountingFor, Counting
<1>2. was' \in [Handlers -> SUBSET Groups]
  BY <1>1 DEF Observe, AccessTypeOK
<1>3. ASSUME NEW h \in Handlers
      PROVE  (\/ call[h] = Absent
              \/ call'[h] = Absent
              \/ calm[h] /\ UNCHANGED Basis(call[h].user, call[h].adapter)) \in BOOLEAN
  OBVIOUS
<1>4. calm' \in [Handlers -> BOOLEAN]
  BY <1>3 DEF Observe
<1> QED
  BY <1>2, <1>4

LEMMA StoresType ==
    ASSUME AccessTypeOK, AccessNext
    PROVE  /\ owner' \in [Adapters -> Users \cup {Stranger, Absent}]
           /\ shares' \in [Adapters -> [Groups -> {Absent} \cup Levels]]
<1>1. ASSUME NEW h \in Handlers, Act(h)
      PROVE  /\ owner' \in [Adapters -> Users \cup {Stranger, Absent}]
             /\ shares' \in [Adapters -> [Groups -> {Absent} \cup Levels]]
  <2>1. call[h] \in Call
    BY <1>1 DEF AccessTypeOK, Act, UpdateAdapter, DeleteAdapter, AssignAdapterToGroup,
                RemoveAdapterFromGroup, At
  <2>2. /\ call[h].user \in Users /\ call[h].adapter \in Adapters
        /\ call[h].level \in Levels \cup {Absent}
    BY <2>1 DEF Call
  <2>3. /\ [shares[call[h].adapter] EXCEPT ![call[h].group] = call[h].level]
             \in [Groups -> {Absent} \cup Levels]
        /\ [shares[call[h].adapter] EXCEPT ![call[h].group] = Absent]
             \in [Groups -> {Absent} \cup Levels]
    BY <2>2 DEF AccessTypeOK
  <2>4. owner' \in [Adapters -> Users \cup {Stranger, Absent}]
    BY <1>1, <2>2 DEF AccessTypeOK, Act, UpdateAdapter, DeleteAdapter, AssignAdapterToGroup,
                      RemoveAdapterFromGroup
  <2>5. shares' \in [Adapters -> [Groups -> {Absent} \cup Levels]]
    BY <1>1, <2>2, <2>3 DEF AccessTypeOK, Act, UpdateAdapter, DeleteAdapter, AssignAdapterToGroup,
                      RemoveAdapterFromGroup
  <2> QED
    BY <2>4, <2>5
<1>2. ASSUME NEW h \in Handlers, Begin(h) \/ Decide(h) \/ Leave(h)
      PROVE  UNCHANGED adapters
  BY <1>2 DEF Begin, Leave, Decide, GetAdapter, CanManageGroups, CheckManager, ListAll, ListOwn,
              GetUser, CheckReading, HasAccess, CheckAssigning, CheckOwner, CheckTarget
<1>3. ASSUME NEW a \in Adapters, NEW u \in Users \cup {Stranger}, CreateAdapter(a, u)
      PROVE  /\ owner' \in [Adapters -> Users \cup {Stranger, Absent}]
             /\ shares' = shares
  BY <1>3 DEF CreateAdapter, AccessTypeOK
<1> QED
  BY <1>1, <1>2, <1>3 DEF AccessNext, AccessTypeOK, adapters

LEMMA InitAInv == AccessInit => IInv /\ AInv
<1> SUFFICES ASSUME AccessInit PROVE IInv /\ AInv
  OBVIOUS
<1>1. IInv
  BY InitIInv DEF AccessInit
<1>2. AccessTypeOK
  BY DEF AccessInit, AccessTypeOK
<1> QED
  BY <1>1, <1>2 DEF AccessInit, AInv

\* What the user's groups are counts for the request that reads them.
LEMMA NextAInv == IInv /\ AInv /\ [AccessNext]_<<vars, accessVars>> => IInv' /\ AInv'
<1> SUFFICES ASSUME IInv, AInv, [AccessNext]_<<vars, accessVars>> PROVE IInv' /\ AInv'
  OBVIOUS
<1>1. CASE UNCHANGED <<vars, accessVars>>
  <2>1. IInv'
    BY <1>1, NextIInv
  <2>2. AInv'
    BY <1>1 DEF AInv, AccessTypeOK, accessVars, vars, Within
  <2> QED
    BY <2>1, <2>2
<1>2. CASE AccessNext
  <2>1. TypeOK /\ AccessTypeOK /\ [Next]_vars
    BY <1>2, OfMembership DEF IInv, AInv
  <2>2. IInv'
    BY <2>1, NextIInv
  <2>3. disturbed \subseteq disturbed'
    BY <2>1, DisturbedGrows
  <2>4. ASSUME NEW h \in Handlers, call'[h] # Absent
        PROVE  was'[h] = was[h] \cup CountingFor(h)'
    BY <1>2, <2>4 DEF AccessNext, Observe
  <2>5. was' \in [Handlers -> SUBSET Groups] /\ calm' \in [Handlers -> BOOLEAN]
    BY <1>2, <2>1, ObservedType DEF AccessNext
  <2>6. ASSUME NEW k \in Handlers, call[k] # Absent, call'[k] = call[k],
               call[k].user \notin disturbed'
        PROVE  Within(call'[k], was'[k])
    <3>1. call[k] \in Call
      BY <2>1, <2>6 DEF AccessTypeOK
    <3>2. Within(call[k], was[k])
      BY <2>3, <2>6 DEF AInv
    <3> QED
      BY <2>4, <2>6, <3>1, <3>2, WithinGrows
  <2> DEFINE Right ==
        /\ call' \in [Handlers -> Call \cup {Absent}]
        /\ \A k \in Handlers : (call'[k] # Absent /\ call'[k].user \notin disturbed')
                                  => Within(call'[k], was'[k])
  <2>7. Right
    <3>1. ASSUME NEW h \in Handlers, Kept(h), UNCHANGED vars
          PROVE  Right
      <4>1. call' \in [Handlers -> Call \cup {Absent}]
        BY <3>1 DEF Kept
      <4>2. ASSUME NEW k \in Handlers, call'[k] # Absent, call'[k].user \notin disturbed'
            PROVE  Within(call'[k], was'[k])
        <5>1. CASE k # h
          BY <2>6, <3>1, <4>2, <5>1 DEF Kept
        <5>2. CASE k = h /\ call[h] = Absent
          BY <2>5, <3>1, <4>2, <5>2 DEF Kept
        <5>3. CASE k = h /\ call[h] # Absent
          <6>1. call[h] \in Call /\ call[h].user \in Users /\ call'[h].user = call[h].user
            BY <2>1, <3>1, <4>2, <5>3, CallFields DEF Kept, AccessTypeOK
          <6>2. call[h].user \notin disturbed
            BY <2>3, <4>2, <5>3, <6>1
          <6>3. GroupsOf(call[h].user) \subseteq Counting(call[h].user)
            BY <6>1, <6>2, GroupsCount
          <6>4. CountingFor(h)' = Counting(call[h].user)
            BY <3>1, <6>1 DEF CountingFor, Counting, MembersOf, BusyOn, vars
          <6>5. was'[h] = was[h] \cup Counting(call[h].user)
            BY <2>4, <4>2, <5>3, <6>4
          <6>6. Within(call[h], was'[h])
            BY <5>3, <6>1, <6>2, <6>5, WithinGrows DEF AInv
          <6>7. was'[h] \in SUBSET Groups
            BY <2>5
          <6> QED
            BY <3>1, <4>2, <5>3, <6>3, <6>5, <6>6, <6>7 DEF Kept
        <5> QED
          BY <5>1, <5>2, <5>3
      <4> QED
        BY <4>1, <4>2
    <3>2. CASE call' = call
      BY <2>1, <2>6, <3>2 DEF AccessTypeOK
    <3>3. CASE call' = [h \in Handlers |-> Absent]
      BY <3>3
    <3>4. ASSUME NEW h \in Handlers, Begin(h) \/ Decide(h) \/ Act(h) \/ Leave(h)
          PROVE  Kept(h)
      BY <2>1, <3>4, HandlerKeeps
    <3> HIDE DEF Right
    <3> QED
      BY <1>2, <3>1, <3>2, <3>3, <3>4 DEF AccessNext, CreateAdapter
  <2>8. AccessTypeOK'
    BY <1>2, <2>1, <2>5, <2>7, StoresType DEF AccessTypeOK
  <2> QED
    BY <2>2, <2>7, <2>8 DEF AInv
<1> QED
  BY <1>1, <1>2

\* Whatever requests, membership changes and restarts interleave: what a request
\* is granted by is the ownership or a group that the group store, too, has had
\* the user in since the request began.
THEOREM AccessIsByMembers == AccessSpec => []AccessFollowsMembers
<1>1. AInv => AccessFollowsMembers
  BY DEF AInv, Within, AccessFollowsMembers
<1> QED
  BY <1>1, InitAInv, NextAInv, PTL DEF AccessSpec

-----------------------------------------------------------------------------
(* Decisions that no change has crossed.                                   *)

\* What a request has found out by the step it is at, if nothing of it has changed.
Justified(c) ==
    /\ c.at \in {"own", "all", "reading"} => c.op = "list"
    /\ c.at \in {"assigning", "owner", "target", "permission"} => c.op \in Sharing
    /\ c.at \in {"managing", "reading", "sharing"} => c.left \subseteq GroupsOf(c.user)
    /\ c.op \in {"get"} \cup Changes =>
          /\ c.at \in {"manager", "managing", "user", "sharing"} =>
                owner[c.adapter] \notin {Absent, c.user}
          /\ c.at = "managing" =>
                \A g \in GroupsOf(c.user) \ c.left : ~HasPermission(g, "manage")
          /\ c.at \in {"user", "sharing"} =>
                \A g \in GroupsOf(c.user) : ~HasPermission(g, "manage")
          /\ c.at = "sharing" =>
                \A g \in GroupsOf(c.user) \ c.left : shares[c.adapter][g] # "read"
          /\ c.at = "denied" => ~MayGet(c.user, c.adapter)
    /\ c.op = "list" =>
          /\ c.at = "sharing" => c.group \in GroupsOf(c.user)
          /\ c.at = "all" =>
                \E g \in GroupsOf(c.user) :
                   HasPermission(g, "manage") \/ shares[c.adapter][g] = "read"
    /\ (<<c.at, c.op>> \in ({"granted"} \X Questions) \cup ({"act"} \X Changes))
          => MayGet(c.user, c.adapter)

CalmInv == \A h \in Handlers : (call[h] # Absent /\ calm[h]) => Justified(call[h])

\* Whether it has goes by nothing but the user, the adapter and the groups that are gone.
LEMMA SameJustified ==
    ASSUME TypeOK, NEW c \in Call, Justified(c), UNCHANGED Basis(c.user, c.adapter)
    PROVE  Justified(c)'
<1>1. c.user \in Users
  BY DEF Call
<1>2. GroupsOf(c.user) \subseteq Groups /\ GroupsOf(c.user)' = GroupsOf(c.user)
  BY <1>1, StoreTypes DEF Basis, GroupsOf
<1>3. owner'[c.adapter] = owner[c.adapter] /\ shares'[c.adapter] = shares[c.adapter]
  BY DEF Basis
<1>4. {g \in Groups : groups'[g] = Absent} = {g \in Groups : groups[g] = Absent}
  BY DEF Basis
<1>5. \A g \in Groups : groups'[g] = Absent <=> groups[g] = Absent
  BY <1>4
<1>6. \A g \in GroupsOf(c.user), p \in {"manage", "read", "assign"} :
         HasPermission(g, p)' <=> HasPermission(g, p)
  BY <1>2, <1>5 DEF HasPermission
<1>7. MayGet(c.user, c.adapter)' <=> MayGet(c.user, c.adapter)
  BY <1>2, <1>3, <1>6 DEF MayGet
<1> QED
  BY <1>2, <1>3, <1>6, <1>7 DEF Justified

\* What the helpers make of a request c.
LEMMA ConsiderGives ==
    ASSUME AccessTypeOK, NEW h \in Handlers, NEW c \in Call, c = call[h],
           NEW d, d = call'[h], d # Absent, NEW step, NEW gs, Consider(h, step, gs)
    PROVE  /\ d.at = step /\ d.left = gs /\ d.group = c.group
           /\ d.op = c.op /\ d.user = c.user /\ d.adapter = c.adapter
<1>1. d = [c EXCEPT !.at = step, !.left = gs]
  BY DEF AccessTypeOK, Consider
<1> QED
  BY <1>1 DEF Call

LEMMA ProceedGives ==
    ASSUME AccessTypeOK, NEW h \in Handlers, NEW c \in Call, c = call[h],
           NEW d, d = call'[h], d # Absent, NEW step, Proceed(h, step)
    PROVE  /\ d.at = step /\ d.left = c.left /\ d.group = c.group
           /\ d.op = c.op /\ d.user = c.user /\ d.adapter = c.adapter
<1>1. d = [c EXCEPT !.at = step]
  BY DEF AccessTypeOK, Proceed
<1> QED
  BY <1>1 DEF Call

LEMMA ListGives ==
    ASSUME AccessTypeOK, NEW h \in Handlers, NEW c \in Call, c = call[h],
           NEW d, d = call'[h], d # Absent, NEW g, ListBy(h, g)
    PROVE  d.at = "all" /\ d.op = c.op /\ d.user = c.user /\ d.adapter = c.adapter
<1>1. d = [c EXCEPT !.at = "all", !.left = {}, !.via = g]
  BY DEF AccessTypeOK, ListBy
<1> QED
  BY <1>1 DEF Call

LEMMA AllowGives ==
    ASSUME AccessTypeOK, NEW h \in Handlers, NEW c \in Call, c = call[h],
           NEW d, d = call'[h], d # Absent, NEW g, Allow(h, g)
    PROVE  /\ d.at = IF c.op = "update" /\ ~c.again THEN "adapter" ELSE AfterAllow(c.op)
           /\ d.op = c.op /\ d.user = c.user /\ d.adapter = c.adapter
<1>1. CASE c.op = "update" /\ ~c.again
  <2>1. d = [c EXCEPT !.at = "adapter", !.left = {}, !.again = TRUE]
    BY <1>1 DEF AccessTypeOK, Allow
  <2> QED
    BY <1>1, <2>1 DEF Call
<1>2. CASE ~(c.op = "update" /\ ~c.again)
  <2>1. d = [c EXCEPT !.at = AfterAllow(c.op), !.left = {}, !.via = g]
    BY <1>2 DEF AccessTypeOK, Allow
  <2> QED
    BY <1>2, <2>1 DEF Call
<1> QED
  BY <1>1, <1>2

\* A decision in favour of the user is one that the rule makes.
LEMMA AllowJustified ==
    ASSUME AccessTypeOK, NEW h \in Handlers, NEW c \in Call, c = call[h],
           NEW d, d = call'[h], d # Absent, NEW g, Allow(h, g),
           c.op \notin Sharing => MayGet(c.user, c.adapter)
    PROVE  Justified(d)
<1>1. /\ d.at = IF c.op = "update" /\ ~c.again THEN "adapter" ELSE AfterAllow(c.op)
      /\ d.op = c.op /\ d.user = c.user /\ d.adapter = c.adapter
  BY AllowGives
<1>2. CASE d.at = "adapter"
  BY <1>1, <1>2 DEF Justified
<1>3. CASE d.at = AfterAllow(c.op) /\ c.op \in Sharing
  <2>1. d.at \in {"target", "act"}
    BY <1>3 DEF AfterAllow
  <2> QED
    BY <1>1, <1>3, <2>1 DEF Justified
<1>4. CASE d.at = AfterAllow(c.op) /\ c.op \notin Sharing
  <2>1. d.at \in {"granted", "act"}
    BY <1>4 DEF AfterAllow
  <2> QED
    BY <1>1, <1>4, <2>1 DEF Justified
<1> QED
  BY <1>1, <1>2, <1>3, <1>4

\* Decisions are about one user and one adapter.
LEMMA SameQuestion ==
    ASSUME AccessTypeOK, NEW h \in Handlers, NEW c \in Call, c = call[h],
           NEW d, d = call'[h], d # Absent, Decide(h) \/ Act(h)
    PROVE  d.user = c.user /\ d.adapter = c.adapter
<1>1. ASSUME NEW step, NEW gs, Consider(h, step, gs) \/ Proceed(h, step)
      PROVE  d.user = c.user /\ d.adapter = c.adapter
  BY <1>1, ConsiderGives, ProceedGives
<1>2. Deny(h) => d.user = c.user /\ d.adapter = c.adapter
  BY <1>1 DEF Deny
<1>3. ASSUME NEW g, Allow(h, g) \/ ListBy(h, g)
      PROVE  d.user = c.user /\ d.adapter = c.adapter
  BY <1>3, AllowGives, ListGives
<1>4. ASSUME NEW g, call' = [call EXCEPT ![h].at = "sharing", ![h].group = g]
      PROVE  d.user = c.user /\ d.adapter = c.adapter
  <2>1. d = [c EXCEPT !.at = "sharing", !.group = g]
    BY <1>4 DEF AccessTypeOK
  <2> QED
    BY <2>1 DEF Call
<1> QED
  BY <1>1, <1>2, <1>3, <1>4
     DEF Decide, Act, GetAdapter, CanManageGroups, CheckManager, ListAll, ListOwn,
         GetUser, CheckReading, HasAccess, CheckAssigning, CheckOwner, CheckTarget,
         UpdateAdapter, DeleteAdapter, AssignAdapterToGroup, RemoveAdapterFromGroup

LEMMA DecideJustified ==
    ASSUME TypeOK, AccessTypeOK, NEW h \in Handlers, NEW c \in Call, c = call[h],
           NEW d, d = call'[h], d # Absent, Justified(c), Decide(h)
    PROVE  Justified(d)
<1>1. /\ c.user \in Users /\ c.user # Absent /\ c.op \in Questions \cup Changes \cup Sharing
      /\ GroupsOf(c.user) \subseteq Groups
  BY AccessAssumption, StoreTypes DEF Call
<1>2. ASSUME NEW step, NEW gs, Consider(h, step, gs)
      PROVE  /\ d.at = step /\ d.left = gs /\ d.op = c.op /\ d.user = c.user
             /\ d.adapter = c.adapter /\ d.group = c.group
  BY <1>2, ConsiderGives
<1>3. ASSUME NEW step, Proceed(h, step)
      PROVE  /\ d.at = step /\ d.left = c.left /\ d.op = c.op /\ d.user = c.user
             /\ d.adapter = c.adapter /\ d.group = c.group
  BY <1>3, ProceedGives
<1>4. ASSUME Deny(h)
      PROVE  d.at = "denied" /\ d.op = c.op /\ d.user = c.user /\ d.adapter = c.adapter
  BY <1>2, <1>4 DEF Deny
<1>5. ASSUME Deny(h), c.op \in {"get"} \cup Changes => ~MayGet(c.user, c.adapter)
      PROVE  Justified(d)
  BY <1>4, <1>5 DEF Justified
<1>6. ASSUME NEW g \in GroupsOf(c.user), ListBy(h, g), c.op = "list",
             HasPermission(g, "manage") \/ shares[c.adapter][g] = "read"
      PROVE  Justified(d)
  <2>1. d.at = "all" /\ d.op = "list" /\ d.user = c.user /\ d.adapter = c.adapter
    BY <1>6, ListGives
  <2> QED
    BY <1>6, <2>1 DEF Justified
<1>7. CASE GetAdapter(h)
  <2>1. CASE owner[c.adapter] = Absent /\ Deny(h)
    BY <1>5, <2>1 DEF MayGet
  <2>2. CASE owner[c.adapter] = c.user /\ Allow(h, Absent)
    BY <1>1, <2>2, AllowJustified DEF MayGet
  <2>3. CASE owner[c.adapter] \notin {Absent, c.user} /\ Proceed(h, "manager")
    BY <1>3, <2>3 DEF Justified
  <2> QED
    BY <1>7, <2>1, <2>2, <2>3 DEF GetAdapter
<1>8. CASE CanManageGroups(h)
  <2>1. c.at = "manager" /\ Consider(h, "managing", GroupsOf(c.user))
    BY <1>8 DEF CanManageGroups, At
  <2> QED
    BY <1>2, <2>1 DEF Justified
<1>9. CASE CheckManager(h)
  <2>1. c.at = "managing" /\ c.left \subseteq GroupsOf(c.user)
    BY <1>9 DEF CheckManager, At, Justified
  <2>2. CASE c.left = {} /\ Proceed(h, IF c.op = "list" THEN "own" ELSE "user")
    <3>1. d.at = IF c.op = "list" THEN "own" ELSE "user"
      BY <1>3, <2>2
    <3>2. d.left = c.left /\ d.op = c.op /\ d.user = c.user /\ d.adapter = c.adapter
      BY <1>3, <2>2
    <3> QED
      BY <2>1, <2>2, <3>1, <3>2 DEF Justified
  <2>3. ASSUME NEW g \in c.left, ~HasPermission(g, "manage"),
               Consider(h, "managing", c.left \ {g})
        PROVE  Justified(d)
    BY <1>2, <2>1, <2>3 DEF Justified
  <2>4. ASSUME NEW g \in c.left, HasPermission(g, "manage"), c.op = "list", ListBy(h, g)
        PROVE  Justified(d)
    BY <1>6, <2>1, <2>4
  <2>5. ASSUME NEW g \in c.left, HasPermission(g, "manage"), c.op # "list", Allow(h, g)
        PROVE  Justified(d)
    <3>1. c.op \notin Sharing => MayGet(c.user, c.adapter)
      BY <1>1, <2>1, <2>5 DEF MayGet, Justified
    <3> QED
      BY <2>5, <3>1, AllowJustified
  <2>6. \/ c.left = {} /\ Proceed(h, IF c.op = "list" THEN "own" ELSE "user")
        \/ \E g \in c.left :
              \/ ~HasPermission(g, "manage") /\ Consider(h, "managing", c.left \ {g})
              \/ HasPermission(g, "manage") /\ c.op = "list" /\ ListBy(h, g)
              \/ HasPermission(g, "manage") /\ c.op # "list" /\ Allow(h, g)
    BY <1>9 DEF CheckManager
  <2> QED
    BY <2>2, <2>3, <2>4, <2>5, <2>6
<1>10. CASE ListAll(h)
  <2>1. c.at = "all" /\ c.op = "list"
    BY <1>10 DEF ListAll, At, Justified
  <2>2. Proceed(h, IF owner[c.adapter] # Absent THEN "granted" ELSE "denied")
    BY <1>10 DEF ListAll
  <2>3. d.at = (IF owner[c.adapter] # Absent THEN "granted" ELSE "denied")
        /\ d.op = c.op /\ d.user = c.user /\ d.adapter = c.adapter
    BY <1>3, <2>2
  <2> QED
    BY <2>1, <2>3 DEF Justified, MayGet
<1>11. CASE ListOwn(h)
  <2>1. c.at = "own" /\ c.op = "list"
    BY <1>11 DEF ListOwn, At, Justified
  <2>2. CASE owner[c.adapter] = c.user
    BY <1>1, <1>11, <2>2, AllowJustified DEF ListOwn, MayGet
  <2>3. CASE owner[c.adapter] # c.user
    BY <1>3, <1>11, <2>1, <2>3 DEF ListOwn, Justified
  <2> QED
    BY <2>2, <2>3
<1>12. CASE GetUser(h)
  <2>1. c.at = "user" /\ Consider(h, AfterUser(c.op), GroupsOf(c.user))
    BY <1>12 DEF GetUser, At
  <2>2. d.at = AfterUser(c.op) /\ d.left = GroupsOf(c.user) /\ d.op = c.op /\ d.user = c.user
        /\ d.adapter = c.adapter
    BY <1>2, <2>1
  <2>3. CASE c.op = "list"
    BY <2>1, <2>2, <2>3 DEF AfterUser, Justified
  <2>4. CASE c.op \in Sharing
    BY <2>1, <2>2, <2>4 DEF AfterUser, Justified
  <2>5. CASE c.op \in {"get"} \cup Changes
    BY <2>1, <2>2, <2>5 DEF AfterUser, Justified
  <2> QED
    BY <1>1, <2>3, <2>4, <2>5
<1>13. CASE CheckReading(h)
  <2>1. c.at = "reading" /\ c.op = "list" /\ c.left \subseteq GroupsOf(c.user)
    BY <1>13 DEF CheckReading, At, Justified
  <2>2. ASSUME NEW g \in c.left, call' = [call EXCEPT ![h].at = "sharing", ![h].group = g]
        PROVE  Justified(d)
    <3>1. d = [c EXCEPT !.at = "sharing", !.group = g]
      BY <2>2 DEF AccessTypeOK
    <3>2. d.at = "sharing" /\ d.group = g /\ d.left = c.left /\ d.op = c.op /\ d.user = c.user
      BY <3>1 DEF Call
    <3>3. d.op = "list" /\ d.group \in GroupsOf(d.user) /\ d.left \subseteq GroupsOf(d.user)
      BY <2>1, <2>2, <3>2
    <3> QED
      BY <3>2, <3>3 DEF Justified
  <2>3. ASSUME NEW g \in c.left, Consider(h, "reading", c.left \ {g})
        PROVE  Justified(d)
    BY <1>2, <2>1, <2>3 DEF Justified
  <2> QED
    BY <1>5, <1>13, <2>1, <2>2, <2>3 DEF CheckReading
<1>14. CASE HasAccess(h)
  <2>1. c.at = "sharing" /\ c.left \subseteq GroupsOf(c.user)
    BY <1>14 DEF HasAccess, At, Justified
  <2>2. CASE c.left = {} /\ Deny(h)
    BY <1>5, <2>1, <2>2 DEF Justified, MayGet
  <2> DEFINE looked == IF c.op = "list" THEN {c.group} ELSE c.left
  <2>3. looked \subseteq GroupsOf(c.user)
    BY <2>1 DEF Justified
  <2>4. ASSUME NEW g \in looked, shares[c.adapter][g] # "read",
               Consider(h, IF c.op = "list" THEN "reading" ELSE "sharing", c.left \ {g})
        PROVE  Justified(d)
    <3>1. d.at = IF c.op = "list" THEN "reading" ELSE "sharing"
      BY <1>2, <2>4
    <3>2. /\ d.left = c.left \ {g} /\ d.op = c.op /\ d.user = c.user /\ d.adapter = c.adapter
      BY <1>2, <2>4
    <3> QED
      BY <2>1, <2>4, <3>1, <3>2 DEF Justified
  <2>5. ASSUME NEW g \in looked, shares[c.adapter][g] = "read", c.op = "list", ListBy(h, g)
        PROVE  Justified(d)
    BY <1>6, <2>3, <2>5
  <2>6. ASSUME NEW g \in looked, shares[c.adapter][g] = "read", c.op # "list", Allow(h, g)
        PROVE  Justified(d)
    <3>1. c.op \notin Sharing => MayGet(c.user, c.adapter)
      BY <1>1, <2>1, <2>3, <2>6 DEF MayGet, Justified
    <3> QED
      BY <2>6, <3>1, AllowJustified
  <2>7. \/ c.left = {} /\ Deny(h)
        \/ \E g \in looked :
              \/ /\ shares[c.adapter][g] # "read"
                 /\ Consider(h, IF c.op = "list" THEN "reading" ELSE "sharing", c.left \ {g})
              \/ shares[c.adapter][g] = "read" /\ c.op = "list" /\ ListBy(h, g)
              \/ shares[c.adapter][g] = "read" /\ c.op # "list" /\ Allow(h, g)
    BY <1>14 DEF HasAccess
  <2> QED
    BY <2>2, <2>4, <2>5, <2>6, <2>7
<1>15. CASE CheckAssigning(h) \/ CheckOwner(h) \/ CheckTarget(h)
  <2>1. c.at \in {"assigning", "owner", "target", "permission"} /\ c.op \in Sharing
    BY <1>15 DEF CheckAssigning, CheckOwner, CheckTarget, At, Justified
  <2>2. ASSUME NEW g, Allow(h, g) PROVE Justified(d)
    BY <2>1, <2>2, AllowJustified
  <2>3. ASSUME NEW step \in {"owner", "permission", "act"}, Proceed(h, step) PROVE Justified(d)
    BY <1>3, <2>1, <2>3 DEF Justified
  <2>4. ASSUME NEW g \in c.left, Consider(h, "assigning", c.left \ {g}) PROVE Justified(d)
    BY <1>2, <2>1, <2>4 DEF Justified
  <2>5. Deny(h) => Justified(d)
    BY <1>5, <2>1
  <2> QED
    BY <1>15, <2>2, <2>3, <2>4, <2>5 DEF CheckAssigning, CheckOwner, CheckTarget
<1> QED
  BY <1>7, <1>8, <1>9, <1>10, <1>11, <1>12, <1>13, <1>14, <1>15 DEF Decide

\* What was allowed is done, or there is nothing to do it to.
LEMMA ActJustified ==
    ASSUME AccessTypeOK, NEW h \in Handlers, NEW c \in Call, c = call[h],
           NEW d, d = call'[h], d # Absent, Act(h)
    PROVE  Justified(d)
<1>1. /\ c.op \in Changes \cup Sharing
      /\ \/ Proceed(h, "granted")
         \/ Deny(h) /\ (c.op \in Changes => owner[c.adapter] = Absent)
  BY DEF Act, UpdateAdapter, DeleteAdapter, AssignAdapterToGroup, RemoveAdapterFromGroup
<1>2. CASE Proceed(h, "granted")
  <2>1. d.at = "granted" /\ d.op = c.op
    BY <1>2, ProceedGives
  <2> QED
    BY <1>1, <2>1 DEF Justified
<1>3. CASE Deny(h) /\ (c.op \in Changes => owner[c.adapter] = Absent)
  <2>1. d.at = "denied" /\ d.op = c.op /\ d.user = c.user /\ d.adapter = c.adapter
    BY <1>3, ConsiderGives DEF Deny
  <2> QED
    BY <1>1, <1>3, <2>1 DEF Justified, MayGet
<1> QED
  BY <1>1, <1>2, <1>3

LEMMA BeginJustified ==
    ASSUME AccessTypeOK, NEW h \in Handlers, Begin(h)
    PROVE  Justified(call[h])'
<1>1. PICK op \in Serves[h], u \in Users, a \in Adapters,
           g \in Groups \cup {Absent}, level \in Levels \cup {Absent} :
         /\ g = Absent <=> op \notin Sharing
         /\ level = Absent <=> op # "share"
         /\ call' = [call EXCEPT ![h] =
               [op |-> op, user |-> u, adapter |-> a, group |-> g, level |-> level,
                at |-> IF op \in {"get"} \cup Changes THEN "adapter" ELSE "manager",
                left |-> {}, via |-> Absent, again |-> FALSE]]
  BY DEF Begin
<1>2. /\ call'[h].op = op
      /\ call'[h].at = IF op \in {"get"} \cup Changes THEN "adapter" ELSE "manager"
  BY <1>1 DEF AccessTypeOK
<1> QED
  BY <1>2 DEF Justified

LEMMA NextCalm == IInv /\ AInv /\ CalmInv /\ [AccessNext]_<<vars, accessVars>> => CalmInv'
<1> SUFFICES ASSUME IInv, AInv, CalmInv, [AccessNext]_<<vars, accessVars>>,
                    NEW k \in Handlers, call'[k] # Absent, calm'[k]
             PROVE  Justified(call[k])'
  BY DEF CalmInv
<1>1. TypeOK /\ AccessTypeOK /\ AccessTypeOK'
  BY NextAInv DEF IInv, AInv
<1>2. PICK d \in Call : d = call'[k]
  BY <1>1 DEF AccessTypeOK
<1>3. ASSUME call[k] # Absent, Justified(d), UNCHANGED Basis(call[k].user, call[k].adapter),
             d.user = call[k].user, d.adapter = call[k].adapter
      PROVE  Justified(call[k])'
  <2>1. UNCHANGED Basis(d.user, d.adapter)
    BY <1>2, <1>3 DEF Basis
  <2>2. Justified(d)'
    BY <1>1, <1>3, <2>1, SameJustified
  <2> QED
    BY <1>2, <2>2 DEF Justified
<1>4. CASE UNCHANGED <<vars, accessVars>>
  <2>1. call[k] # Absent /\ calm[k] /\ d = call[k]
    BY <1>2, <1>4 DEF accessVars
  <2>2. UNCHANGED Basis(call[k].user, call[k].adapter)
    BY <1>4 DEF Basis, vars, accessVars
  <2> QED
    BY <1>3, <2>1, <2>2 DEF CalmInv
<1>5. CASE AccessNext /\ call[k] # Absent
  <2>1. calm[k] /\ UNCHANGED Basis(call[k].user, call[k].adapter)
    BY <1>5 DEF AccessNext, Observe
  <2>2. PICK c \in Call : c = call[k]
    BY <1>1, <1>5 DEF AccessTypeOK
  <2>3. Justified(c)
    BY <1>5, <2>1, <2>2 DEF CalmInv
  <2>4. CASE d = c
    BY <1>3, <1>5, <2>1, <2>2, <2>3, <2>4
  <2>5. ASSUME Decide(k) \/ Act(k) PROVE Justified(d) /\ d.user = c.user /\ d.adapter = c.adapter
    <3>1. Justified(d)
      BY <1>1, <1>2, <2>2, <2>3, <2>5, DecideJustified, ActJustified
    <3>2. d.user = c.user /\ d.adapter = c.adapter
      BY <1>1, <1>2, <2>2, <2>5, SameQuestion
    <3> QED
      BY <3>1, <3>2
  <2>6. ASSUME NEW h \in Handlers \ {k}, Begin(h) \/ Decide(h) \/ Act(h) \/ Leave(h)
        PROVE  d = c
    BY <1>1, <1>2, <2>2, <2>6, HandlerKeeps DEF Kept
  <2>7. ~Begin(k) /\ ~Leave(k)
    BY <1>1, <1>5 DEF Begin, Leave, AccessTypeOK
  <2> QED
    BY <1>2, <1>3, <1>5, <2>1, <2>2, <2>4, <2>5, <2>6, <2>7 DEF AccessNext, CreateAdapter
<1>6. CASE AccessNext /\ call[k] = Absent
  <2>1. ASSUME NEW h \in Handlers \ {k}, Begin(h) \/ Decide(h) \/ Act(h) \/ Leave(h)
        PROVE  call'[k] = call[k]
    BY <1>1, <2>1, HandlerKeeps DEF Kept
  <2>2. ~Decide(k) /\ ~Act(k) /\ ~Leave(k)
    BY <1>6 DEF Decide, Act, Leave, At, GetAdapter, CanManageGroups, CheckManager, ListAll, ListOwn,
                GetUser, CheckReading, HasAccess, CheckAssigning, CheckOwner, CheckTarget,
                UpdateAdapter, DeleteAdapter, AssignAdapterToGroup, RemoveAdapterFromGroup
  <2>3. Begin(k)
    BY <1>6, <2>1, <2>2 DEF AccessNext, CreateAdapter
  <2> QED
    BY <1>1, <2>3, BeginJustified
<1> QED
  BY <1>4, <1>5, <1>6

\* GetAdapter, ListAdapters, UpdateAdapter and DeleteAdapter, which read the user twice
\* and a group at a time, decide by the one rule when nothing crosses them: nobody is
\* kept away wrongly, and what is granted could be got.
THEOREM CalmDecisions == AccessSpec => []DecisionsAreRight
<1>1. AccessInit => CalmInv
  BY DEF AccessInit, CalmInv
<1>2. CalmInv => DecisionsAreRight
  BY DEF CalmInv, Justified, DecisionsAreRight
<1> QED
  BY <1>1, <1>2, InitAInv, NextAInv, NextCalm, PTL DEF AccessSpec
=============================================================================
