---------------------------- MODULE IssuesMerge ----------------------------
(***************************************************************************)
(* One call of library_issues_merge (tools/issues_merge.go).  A folder     *)
(* moved on disk leaves a record flagged missing beside the new one the    *)
(* scan made; the call carries what hangs on the old record over to the    *)
(* new, reads it back, and deletes the old.  What belongs to another       *)
(* account is written with a key made to act as it, deleted when the call  *)
(* ends.                                                                   *)
(*                                                                         *)
(* The call holds every lock of this server (ItemEdits: a call that asks   *)
(* for Everything), so no other call runs beside it; the web app and the   *)
(* listeners' players do.  Any request to the server can fail, and one     *)
(* that fails can have landed all the same.                                *)
(***************************************************************************)
EXTENDS Naturals, FiniteSets

CONSTANTS
  Old,          (* the records whose folder is missing                     *)
  Fresh,        (* the records made since                                  *)
  Accounts,     (* the accounts of the server                              *)
  Me,           (* the one whose key the call uses: an admin's             *)
  Facts,        (* what a record can say                                   *)
  Worlds,       (* bound: the servers, and the pairs on them, it starts at *)
  Live,         (* bound: the things something else changes meanwhile      *)
  MaxOutside,   (* bound: and how often                                    *)
  None          (* no record                                               *)

Records == Old \cup Fresh

(* What hangs on a record, and whose it is to write: the record's own are  *)
(* an admin's.                                                             *)
RecordKinds  == {"details", "chapters", "cover", "collections"}
AccountKinds == {"progress", "bookmarks", "playlists"}

Things ==
  [kind : RecordKinds, of : {Me}] \cup [kind : AccountKinds, of : Accounts]

ASSUME MergeAssumption ==
  /\ Old \cap Fresh = {}
  /\ None \notin Records
  /\ Me \in Accounts
  /\ Worlds \subseteq [val     : [Things -> [Records -> SUBSET Facts]],
                      feeds   : SUBSET Old,
                      shares  : SUBSET Old,
                      refused : SUBSET (Accounts \ {Me}),
                      pair    : [Old -> Fresh \cup {None}]]
  /\ Live \subseteq Things
  /\ MaxOutside \in Nat

VARIABLES
  val,          (* what each record says of each thing, on the server      *)
  exists,       (* the records the server has                              *)
  feeds,        (* the old records with an open RSS feed                   *)
  shares,       (* and those with a share link                             *)
  refused,      (* the accounts the server lets no key act as              *)
  keys,         (* the accounts a key of this call is there for            *)
  step,         (* where the call is                                       *)
  confirm,      (* its argument                                            *)
  pair,         (* the record that took each old one's place               *)
  todo,         (* the pairs still to come                                 *)
  now,          (* the one at hand                                         *)
  listed,       (* what the call holds of the records, as last read        *)
  accounts,     (* m.users: progress and bookmarks, as last read           *)
  fed,          (* m.feeds: read once                                      *)
  plan,         (* the things the pair at hand lacks                       *)
  done,         (* those the carry is through with                         *)
  acting,       (* m.acting                                                *)
  made,         (* m.keys: the keys it knows to delete                     *)
  unreached,    (* the accounts the answer names as not looked at          *)
  kept,         (* the pairs left in place, with the reason                *)
  merged,       (* those reported merged                                   *)
  keysLeft,     (* the keys the answer names as left behind                *)
  erred,        (* the call answers with an error, and nothing else        *)
  touched,      (* what something else changed since the call read it,     *)
  opened,       (* and the feeds and shares opened since                   *)
  budget        (* how often it still may                                  *)

server  == <<val, exists, feeds, shares, refused>>
args    == <<confirm, pair>>
reads   == <<listed, accounts, fed>>
answer  == <<unreached, kept, merged, keysLeft, erred>>
outside == <<touched, opened, budget>>
vars    == <<server, keys, step, args, todo, now, reads, plan, done, acting,
             made, answer, outside>>

Steps == {"start", "accounts", "plan", "carry", "reread", "replan", "delete",
          "count", "close", "done"}

TypeOK ==
  /\ val       \in [Things -> [Records -> SUBSET Facts]]
  /\ exists    \subseteq Records
  /\ feeds     \subseteq Old
  /\ shares    \subseteq Old
  /\ refused   \subseteq Accounts
  /\ keys      \subseteq Accounts
  /\ step      \in Steps
  /\ confirm   \in BOOLEAN
  /\ pair      \in [Old -> Fresh \cup {None}]
  /\ todo      \subseteq Old
  /\ now       \in Old \cup {None}
  /\ listed    \in [Things -> [Records -> SUBSET Facts]]
  /\ accounts  \in [Things -> [Records -> SUBSET Facts]]
  /\ fed       \subseteq Old
  /\ plan      \subseteq Things
  /\ done      \subseteq Things
  /\ acting    \in [Accounts -> {"unasked", "made", "yes", "nil"}]
  /\ made      \subseteq Accounts
  /\ unreached \subseteq Accounts
  /\ kept      \subseteq Old
  /\ merged    \subseteq Old
  /\ keysLeft  \subseteq Accounts
  /\ erred     \in BOOLEAN
  /\ touched   \subseteq Things \X Records
  /\ opened    \subseteq Old
  /\ budget    \in 0..MaxOutside

Init ==
  /\ \E w \in Worlds :
       /\ val     = w.val
       /\ feeds   = w.feeds
       /\ shares  = w.shares
       /\ refused = w.refused
       /\ pair    = w.pair
  /\ exists    = Records
  /\ keys      = {}
  /\ step      = "start"
  /\ confirm   \in BOOLEAN
  /\ todo      = {}
  /\ now       = None
  /\ listed    = val
  /\ accounts  = val
  /\ fed       = {}
  /\ plan      = {}
  /\ done      = {}
  /\ acting    = [u \in Accounts |-> IF u = Me THEN "yes" ELSE "unasked"]
  /\ made      = {}
  /\ unreached = {}
  /\ kept      = {}
  /\ merged    = {}
  /\ keysLeft  = {}
  /\ erred     = FALSE
  /\ touched   = {}
  /\ opened    = {}
  /\ budget    = MaxOutside

-----------------------------------------------------------------------------
(* Bookmarks, collections and playlists are added to; the rest is written  *)
(* over.  Details the old record does not have are written over as well,   *)
(* chapters, a cover and progress it does not have are not.                *)
Added == {"bookmarks", "collections", "playlists"}

Lacks(t, was, has) ==
  CASE t.kind \in Added    -> ~(was \subseteq has)
    [] t.kind = "details"  -> was # has
    [] OTHER               -> was # {} /\ was # has

Carried(t, was, has) ==
  CASE t.kind \in Added              -> has \cup was
    [] t.kind = "cover" /\ was = {}  -> has
    [] OTHER                         -> was

(* The playlists of another account only that account can read.            *)
Foreign(t) == t.kind = "playlists" /\ t.of # Me

(* The old record is read whole when it is paired, the collections and the *)
(* call's own playlists at each plan, progress and bookmarks with the      *)
(* accounts; covers and other accounts' playlists when they are carried.   *)
Listings(t) == t.kind = "collections" \/ (t.kind = "playlists" /\ t.of = Me)

Relisted == [t \in Things |-> IF Listings(t) THEN val[t] ELSE listed[t]]

Was(t, o) ==
  CASE t.kind \in {"progress", "bookmarks"}  -> accounts[t][o]
    [] t.kind = "cover" \/ Foreign(t)        -> val[t][o]
    [] OTHER                                 -> listed[t][o]

(* m.plan: the new record is read again, and a cover's path differs        *)
(* whatever the picture.                                                   *)
Planned(t, o) ==
  CASE Foreign(t) -> FALSE
    [] t.kind = "cover" -> listed[t][o] # {}
    [] t.kind \in {"progress", "bookmarks"} ->
         Lacks(t, accounts[t][o], accounts[t][pair[o]])
    [] t.kind \in {"details", "chapters"} -> Lacks(t, listed[t][o], val[t][pair[o]])
    [] OTHER -> Lacks(t, val[t][o], val[t][pair[o]])

PlanOf(o) == {t \in Things : Planned(t, o)}

(* Mutant: the share is not looked at.                                     *)
BlockedByFeed(o) == o \in fed

Blocked(o) == o \in fed \cup shares

-----------------------------------------------------------------------------
Go(s) == step' = s

(* A request that fails outside a carry ends the call with its error; the  *)
(* keys are deleted all the same.                                          *)
Err(s) ==
  /\ step = s
  /\ s = "count" => merged # {}
  /\ Go("close")
  /\ erred' = TRUE
  /\ UNCHANGED <<server, keys, args, todo, now, reads, plan, done, acting, made,
                 unreached, kept, merged, keysLeft, outside>>

ReadFails == \E s \in {"start", "accounts", "plan", "reread", "replan",
                       "count"} : Err(s)

Pair ==
  /\ step = "start"
  /\ listed' = val
  /\ todo'   = {o \in Old \cap exists : pair[o] # None}
  /\ Go(IF todo' = {} THEN "close" ELSE "accounts")
  /\ UNCHANGED <<server, keys, args, now, accounts, fed, plan, done, acting, made,
                 answer, outside>>

ReadAccounts ==
  /\ step = "accounts"
  /\ accounts' = val
  /\ fed'      = feeds
  /\ Go("plan")
  /\ UNCHANGED <<server, keys, args, todo, now, listed, plan, done, acting, made,
                 answer, outside>>

(* The pair at hand is dealt with.                                         *)
Move(o) ==
  /\ todo' = todo \ {o}
  /\ now'  = None
  /\ Go(IF todo' = {} THEN "count" ELSE "plan")

Keep(o) ==
  /\ Move(o)
  /\ kept' = kept \cup {o}
  /\ UNCHANGED <<unreached, merged, keysLeft, erred>>

Plan(o) ==
  /\ step = "plan"
  /\ o \in todo
  /\ plan'   = PlanOf(o)
  /\ listed' = Relisted
  /\ done'   = {}
  /\ IF Blocked(o) THEN Keep(o)
     ELSE IF ~confirm THEN Move(o) /\ UNCHANGED answer
     ELSE now' = o /\ Go("carry") /\ UNCHANGED <<todo, answer>>
  /\ UNCHANGED <<server, keys, args, accounts, fed, acting, made, outside>>

-----------------------------------------------------------------------------
(* The carry: the record's own things in their order, then what the        *)
(* accounts have, and last the playlists of every account, in the plan or  *)
(* not.                                                                    *)
Order == <<"details", "chapters", "cover", "collections", "progress",
           "bookmarks", "playlists">>

Rank(t) == CHOOSE n \in 1..7 : Order[n] = t.kind

Tasks == (plan \cup {t \in Things : Foreign(t)}) \ done

Due(t) == t \in Tasks /\ \A s \in Tasks : Rank(t) <= Rank(s)

May(t) == acting[t.of] = "yes"

WriteIt(t) ==
  val' = [val EXCEPT ![t][pair[now]] = Carried(t, Was(t, now), @)]

Carry(t) ==
  /\ step = "carry"
  /\ Due(t)
  /\ May(t)
  /\ WriteIt(t)
  /\ done' = done \cup {t}
  /\ UNCHANGED <<exists, feeds, shares, refused, keys, step, args, todo, now,
                 reads, plan, acting, made, answer, outside>>

(* A write that fails, having landed in part, in whole or not at all,      *)
(* keeps the pair, and so does an account that cannot be acted as when it  *)
(* has progress or bookmarks to carry.                                     *)
PartOf(t) ==
  \E new \in SUBSET (val[t][pair[now]] \cup Was(t, now)) :
    val' = [val EXCEPT ![t][pair[now]] = new]

(* Mutants: the carry goes on after a write that fails, or sends it again  *)
(* and again.                                                              *)
CarryFailsOn(t) ==
  /\ step = "carry"
  /\ Due(t)
  /\ May(t)
  /\ PartOf(t)
  /\ done' = done \cup {t}
  /\ UNCHANGED <<exists, feeds, shares, refused, keys, step, args, todo, now,
                 reads, plan, acting, made, answer, outside>>

CarryFailsAgain(t) ==
  /\ step = "carry"
  /\ Due(t)
  /\ May(t)
  /\ PartOf(t)
  /\ UNCHANGED <<exists, feeds, shares, refused, keys, step, args, todo, now,
                 reads, plan, done, acting, made, answer, outside>>

CarryFails(t) ==
  /\ step = "carry"
  /\ Due(t)
  /\ May(t)
  /\ PartOf(t)
  /\ Keep(now)
  /\ UNCHANGED <<exists, feeds, shares, refused, keys, args, reads, plan, done,
                 acting, made, outside>>

CannotAct(t) ==
  /\ step = "carry"
  /\ Due(t)
  /\ acting[t.of] = "nil"
  /\ ~Foreign(t)
  /\ Keep(now)
  /\ UNCHANGED <<server, keys, args, reads, plan, done, acting, made, outside>>

(* Its playlists are passed over.                                          *)
PassOver(t) ==
  /\ step = "carry"
  /\ Due(t)
  /\ acting[t.of] = "nil"
  /\ Foreign(t)
  /\ done' = done \cup {t}
  /\ UNCHANGED <<server, keys, step, args, todo, now, reads, plan, acting, made,
                 answer, outside>>

(* actingAs: make a key, and see that the server lets it act.              *)
MakeKey(t) ==
  /\ step = "carry"
  /\ Due(t)
  /\ acting[t.of] = "unasked"
  /\ keys'   = keys \cup {t.of}
  /\ made'   = made \cup {t.of}
  /\ acting' = [acting EXCEPT ![t.of] = "made"]
  /\ UNCHANGED <<server, step, args, todo, now, reads, plan, done, answer, outside>>

MakeKeyFails(t) ==
  /\ step = "carry"
  /\ Due(t)
  /\ acting[t.of] = "unasked"
  /\ keys' \in {keys, keys \cup {t.of}}
  /\ acting' = [acting EXCEPT ![t.of] = "nil"]
  /\ UNCHANGED <<server, step, args, todo, now, reads, plan, done, made, answer,
                 outside>>

TryKey(t) ==
  /\ step = "carry"
  /\ Due(t)
  /\ acting[t.of] = "made"
  /\ IF t.of \in refused
       THEN /\ acting'    = [acting EXCEPT ![t.of] = "nil"]
            /\ unreached' = unreached \cup {t.of}
       ELSE /\ acting'    = [acting EXCEPT ![t.of] = "yes"]
            /\ UNCHANGED unreached
  /\ UNCHANGED <<server, keys, step, args, todo, now, reads, plan, done, made,
                 kept, merged, keysLeft, erred, outside>>

TryKeyFails(t) ==
  /\ step = "carry"
  /\ Due(t)
  /\ acting[t.of] = "made"
  /\ acting' = [acting EXCEPT ![t.of] = "nil"]
  /\ UNCHANGED <<server, keys, step, args, todo, now, reads, plan, done, made,
                 answer, outside>>

CarryDone ==
  /\ step = "carry"
  /\ Tasks = {}
  /\ Go("reread")
  /\ UNCHANGED <<server, keys, args, todo, now, reads, plan, done, acting, made,
                 answer, outside>>

-----------------------------------------------------------------------------
(* What arrived is read back: the accounts, then the plan again.  A cover  *)
(* is not asked of the plan, for its path differs however often it is      *)
(* carried, and a share or feed opened meanwhile is not either.            *)
ReRead ==
  /\ step = "reread"
  /\ accounts' = val
  /\ touched'  = {x \in touched : x[1].kind \notin {"progress", "bookmarks"}}
  /\ Go("replan")
  /\ UNCHANGED <<server, keys, args, todo, now, listed, fed, plan, done, acting,
                 made, answer, opened, budget>>

ReadAgain(t, r) ==
  \/ Listings(t)
  \/ (t.kind \in {"details", "chapters"} /\ r \in Fresh)

RePlan ==
  /\ step = "replan"
  /\ listed'  = Relisted
  /\ touched' = {x \in touched : ~ReadAgain(x[1], x[2])}
  /\ IF \E t \in PlanOf(now) : t.kind # "cover"
       THEN Keep(now)
       ELSE Go("delete") /\ UNCHANGED <<todo, now, answer>>
  /\ UNCHANGED <<server, keys, args, accounts, fed, plan, done, acting, made,
                 opened, budget>>

Delete ==
  /\ step = "delete"
  /\ exists' = exists \ {now}
  /\ merged' = merged \cup {now}
  /\ Move(now)
  /\ UNCHANGED <<val, feeds, shares, refused, keys, args, reads, plan, done, acting,
                 made, unreached, kept, keysLeft, erred, outside>>

(* Mutant: the answer to the delete is not looked at.                      *)
DeleteUnseen ==
  /\ step = "delete"
  /\ exists' \in {exists, exists \ {now}}
  /\ merged' = merged \cup {now}
  /\ Move(now)
  /\ UNCHANGED <<val, feeds, shares, refused, keys, args, reads, plan, done, acting,
                 made, unreached, kept, keysLeft, erred, outside>>

DeleteFails ==
  /\ step = "delete"
  /\ exists' \in {exists, exists \ {now}}
  /\ Keep(now)
  /\ UNCHANGED <<val, feeds, shares, refused, keys, args, reads, plan, done, acting,
                 made, outside>>

(* What is still missing is counted, when anything was merged.             *)
Count ==
  /\ step = "count"
  /\ Go("close")
  /\ UNCHANGED <<server, keys, args, todo, now, reads, plan, done, acting, made,
                 answer, outside>>

(* Mutant: a key that could not be deleted is not named.                   *)
CloseKeyUnsaid(u) ==
  /\ step = "close"
  /\ u \in made
  /\ made' = made \ {u}
  /\ keys' \in {keys, keys \ {u}}
  /\ UNCHANGED <<server, step, args, todo, now, reads, plan, done, acting,
                 answer, outside>>

(* However the call ends it deletes the keys it knows of, and its answer   *)
(* names those it could not.                                               *)
CloseKey(u) ==
  /\ step = "close"
  /\ u \in made
  /\ made' = made \ {u}
  /\ \/ keys' = keys \ {u} /\ UNCHANGED keysLeft
     \/ keys' \in {keys, keys \ {u}} /\ keysLeft' = keysLeft \cup {u}
  /\ UNCHANGED <<server, step, args, todo, now, reads, plan, done, acting,
                 unreached, kept, merged, erred, outside>>

Return ==
  /\ step = "close"
  /\ made = {}
  /\ Go("done")
  /\ UNCHANGED <<server, keys, args, todo, now, reads, plan, done, acting, made,
                 answer, outside>>

-----------------------------------------------------------------------------
(* A listener's player, the web app: they change a record, or open a feed  *)
(* or a share on it, at any time while the call runs.                      *)
Outside ==
  /\ step \notin {"start", "done"}
  /\ budget > 0
  /\ budget' = budget - 1
  /\ UNCHANGED <<exists, refused, keys, step, args, todo, now, reads, plan, done,
                 acting, made, answer>>

Touch(t, r) ==
  /\ Outside
  /\ r \in exists
  /\ \E new \in SUBSET Facts : val' = [val EXCEPT ![t][r] = new]
  /\ touched' = touched \cup {<<t, r>>}
  /\ UNCHANGED <<feeds, shares, opened>>

Publish(o) ==
  /\ Outside
  /\ o \in exists
  /\ \/ feeds'  = feeds \cup {o}  /\ UNCHANGED shares
     \/ shares' = shares \cup {o} /\ UNCHANGED feeds
  /\ opened' = opened \cup {o}
  /\ UNCHANGED <<val, touched>>

CarryStep ==
  \/ \E t \in Things :
       \/ Carry(t)
       \/ CarryFails(t)
       \/ CannotAct(t)
       \/ PassOver(t)
       \/ MakeKey(t)
       \/ MakeKeyFails(t)
       \/ TryKey(t)
       \/ TryKeyFails(t)
  \/ CarryDone

Call ==
  \/ ReadFails
  \/ Pair
  \/ ReadAccounts
  \/ \E o \in Old : Plan(o)
  \/ CarryStep
  \/ ReRead
  \/ RePlan
  \/ Delete
  \/ DeleteFails
  \/ Count
  \/ \E u \in Accounts : CloseKey(u)
  \/ Return

Next ==
  \/ Call
  \/ \E t \in Live, r \in Records : Touch(t, r)
  \/ \E o \in Old : Publish(o)

Spec == Init /\ [][Next]_vars

(* Every request is answered or times out, and the call goes on.           *)
FairSpec == Spec /\ WF_vars(Call)

-----------------------------------------------------------------------------
Deletes(o) == o \in exists \ exists'

Arrived(t, o) == ~Lacks(t, val[t][o], val[t][pair[o]])

Untouched(t, o) == <<t, o>> \notin touched /\ <<t, pair[o]>> \notin touched

(* An old record goes only when all that hung on it is on the new one: its *)
(* details, cover and collections, every account's progress and bookmarks, *)
(* and the playlists of every account a key could act as.  Excepted is     *)
(* what something else changed after the call last read it.                *)
NothingLost ==
  [][\A o \in Old : Deletes(o) =>
       \A t \in Things :
         \/ Arrived(t, o)
         \/ ~Untouched(t, o)
         \/ Foreign(t) /\ acting[t.of] # "yes"]_vars

(* An old record with an open feed or a share link stays, unless it was    *)
(* opened while the call ran; so does one the caller asked only to hear    *)
(* of.                                                                     *)
PublishedStay ==
  [][\A o \in Old : Deletes(o) => confirm /\ o \notin (feeds \cup shares) \ opened]_vars

(* However the pairs fared, a call that answers has deleted every key it   *)
(* could act with, or names it: no other account's key outlives the call   *)
(* unsaid.                                                                 *)
KeysAccountedFor ==
  step = "done" /\ ~erred =>
    \A u \in keys : acting[u] = "yes" \/ u \in unreached => u \in keysLeft

(* What the answer says of a pair is so: a merged record is gone, and one  *)
(* that is gone is a merged one or one whose deletion is reported failed.  *)
ReportedAsIs ==
  /\ merged \cap exists = {}
  /\ Old \ exists \subseteq merged \cup kept
  /\ merged \cap kept = {}

(* Whatever fails, and however the server is changed meanwhile, the call   *)
(* gets to its answer, its keys dealt with.                                *)
CallEnds == <>(step = "done" /\ made = {})

-----------------------------------------------------------------------------
(* What the code says of itself, and does not do.                          *)

(* "One that cannot be acted as is named in the answer": where an old      *)
(* record goes with another account's place in a playlist not carried, the *)
(* answer names the account.  A key that could not be made, or not tried,  *)
(* is not a refusal, and its account is passed over unnamed.               *)
LostPlacesAreNamed ==
  step = "delete" =>
    \A t \in Things :
      Foreign(t) /\ Untouched(t, now) /\ ~Arrived(t, now) => t.of \in unreached
=============================================================================
