----------------------------- MODULE Community -----------------------------
(***************************************************************************)
(* What members and administrators add around the orders: reviews,         *)
(* reports, favorites, categories, system settings, and the inbox of       *)
(* notices (ReviewsService, ReportsService, FavoritesService,              *)
(* CategoriesService, SystemConfigService, NotificationsService).          *)
(*                                                                         *)
(* A review is named by what its unique column holds: the order item it is *)
(* about, or, for a review of the seller, the order.  Comments, names and  *)
(* the five scores of a seller are left out; one rating stands for them.   *)
(***************************************************************************)
EXTENDS Requests

CONSTANTS
    OrderItem, ItemOrder,   \* items of orders, and the order of each
    Merchant,               \* the seller of those orders
    Admin,
    Report,                 \* ids of reports
    Category,               \* slugs of categories
    Key, Setting,           \* system settings and their values
    Member, Thing,          \* who has favorites, and products or sellers to like
    Rating

Review == OrderItem \cup OrderId
OrderOf(x) == IF x \in OrderId THEN x ELSE ItemOrder[x]
Entity == Review \cup Report \cup Category \cup Key

\* The rows of the four tables are different rows.
ASSUME CommunityAssumption ==
    /\ ItemOrder \in [OrderItem -> OrderId]
    /\ Merchant \notin Admin /\ IsFiniteSet(Admin)
    /\ Review \cap Report = {}
    /\ Category \cap (Review \cup Report) = {}
    /\ Key \cap (Review \cup Report \cup Category) = {}

ModerationStatus == {"APPROVED", "PENDING_REVIEW", "REJECTED"}
ReportStatus == {"PENDING", "REVIEWED", "RESOLVED", "DISMISSED"}
Visibility == {"ACTIVE", "INACTIVE"}
Value == {"NONE"} \cup ModerationStatus \cup ReportStatus \cup Visibility \cup Setting

VARIABLES
    world,      \* what these services read of the others
    entry,      \* the four tables: moderation, status, visibility or value of a row
    retired,    \* reviews that are soft-deleted
    rating,     \* rating of each review
    favorite,   \* table favorites: rows of a member for a thing
    notice,     \* table notifications, in the order its rows commit
    journal,    \* table audit_logs: entries about a row, in the order they commit
    due         \* history: the active administrators when a report was filed

comVars == <<world, entry, retired, rating, favorite, notice, journal, due>>

World == [delivered : SUBSET OrderId, offered : SUBSET Thing, admins : SUBSET Admin]
NoticeRow == [about : Review \cup Report, to : Admin \cup {Merchant},
              state : {"unread", "read", "removed"}]
JournalRow == [from : Value, to : Value]

CommunityInit ==
    /\ world \in [delivered : SUBSET OrderId, offered : {Thing}, admins : {Admin}]
    /\ entry = [e \in Entity |-> "NONE"]
    /\ retired = {}
    /\ rating = [x \in Review |-> 0]
    /\ favorite = [m \in Member |-> [x \in Thing |-> 0]]
    /\ notice = <<>>
    /\ journal = [e \in Entity |-> <<>>]
    /\ due = [t \in Report |-> {}]

CommunityArgs(e) == [entity |-> e, value |-> "NONE", previous |-> "NONE", rating |-> 0,
                     admins |-> {}, member |-> NoArgs, thing |-> NoArgs, notice |-> 0]

\* A review findUnique finds.
Published(x) == entry[x] # "NONE" /\ x \notin retired

---------------------------------------------------------------------------
(* Requests.                                                               *)

CreateReview(r, x, n) ==
    /\ OrderOf(x) \in world.delivered
    /\ Begin(r, <<"insert", "tellSeller">>,
             [CommunityArgs(x) EXCEPT !.value = "APPROVED", !.rating = n])

UpdateReview(r, x, n) ==
    /\ Published(x)
    /\ Begin(r, <<"rate">>, [CommunityArgs(x) EXCEPT !.rating = n])

DeleteReview(r, x) ==
    /\ Published(x)
    /\ Begin(r, <<"retire">>, CommunityArgs(x))

\* Every administrator's route: read the row, set it, log what was read and set.
Audited(r, e, previous, value) ==
    Begin(r, <<"set", "log">>, [CommunityArgs(e) EXCEPT !.value = value, !.previous = previous])

ModerateReview(r, x, v) == Published(x) /\ Audited(r, x, entry[x], v)

UpdateReport(r, t, v) == entry[t] # "NONE" /\ Audited(r, t, entry[t], v)

UpdateCategory(r, c, v) == entry[c] # "NONE" /\ Audited(r, c, entry[c], v)

\* Deactivating logs ACTIVE as the previous value, whatever it was.
RemoveCategory(r, c) == entry[c] # "NONE" /\ Audited(r, c, "ACTIVE", "INACTIVE")

UpsertSetting(r, k, v) == Audited(r, k, entry[k], v)

CreateCategory(r, c, v) ==
    Begin(r, <<"insert", "log">>, [CommunityArgs(c) EXCEPT !.value = v])

\* assertTargetExists
TargetExists(x) == x \in Review => Published(x)

CreateReport(r, x) ==
    /\ TargetExists(x)
    /\ Begin(r, <<"insertReport", "findAdmins", "tellAdmins">>, CommunityArgs(NoArgs))

AddFavorite(r, m, x) ==
    /\ x \in world.offered
    /\ Begin(r, <<"insertFavorite">>, [CommunityArgs(NoArgs) EXCEPT !.member = m, !.thing = x])

RemoveFavorite(r, m, x) ==
    /\ favorite[m][x] > 0
    /\ Begin(r, <<"dropFavorite">>, [CommunityArgs(NoArgs) EXCEPT !.member = m, !.thing = x])

\* getOwned, and then an update or a deletion by id.
MarkAsRead(r, n) ==
    /\ notice[n].state # "removed"
    /\ Begin(r, <<"markRead">>, [CommunityArgs(NoArgs) EXCEPT !.notice = n])

RemoveNotice(r, n) ==
    /\ notice[n].state # "removed"
    /\ Begin(r, <<"dropNotice">>, [CommunityArgs(NoArgs) EXCEPT !.notice = n])

MarkAllAsRead(u) ==
    /\ AtOnce
    /\ notice' = [n \in DOMAIN notice |->
                    IF notice[n].to = u /\ notice[n].state = "unread"
                    THEN [notice[n] EXCEPT !.state = "read"] ELSE notice[n]]
    /\ UNCHANGED <<world, entry, retired, rating, favorite, journal, due>>

---------------------------------------------------------------------------
(* Statements.                                                             *)

\* Mutation: a deleted review leaves room for another.
TakenByPublished(e) == entry[e] # "NONE" /\ e \notin retired

\* The unique columns orderItemId, orderId and slug, deleted rows included.
Taken(e) == entry[e] # "NONE"

Insert(r) ==
    LET arg == req[r].arg IN
    /\ At(r, "insert")
    /\ IF Taken(arg.entity)
       THEN Quit(r) /\ UNCHANGED <<entry, retired, rating>>
       ELSE /\ entry' = [entry EXCEPT ![arg.entity] = arg.value]
            /\ retired' = retired \ {arg.entity}
            /\ rating' = [x \in Review |-> IF x = arg.entity THEN arg.rating ELSE rating[x]]
            /\ Advance(r)
    /\ UNCHANGED <<world, favorite, notice, journal, due>>

InsertReport(r) ==
    /\ At(r, "insertReport")
    /\ \E t \in Report :
          /\ entry[t] = "NONE"
          /\ entry' = [entry EXCEPT ![t] = "PENDING"]
          /\ due' = [due EXCEPT ![t] = world.admins]
          /\ AdvanceWith(r, CommunityArgs(t))
    /\ UNCHANGED <<world, retired, rating, favorite, notice, journal>>

FindAdmins(r) ==
    /\ At(r, "findAdmins")
    /\ AdvanceWith(r, [req[r].arg EXCEPT !.admins = world.admins])
    /\ UNCHANGED comVars

\* NotificationsService.create and createMany: rows for these recipients, in one statement.
Tell(r, s, recipients) ==
    /\ At(r, s)
    /\ \E order \in [1 .. Cardinality(recipients) -> recipients] :
          /\ \A u \in recipients : \E i \in DOMAIN order : order[i] = u
          /\ notice' = notice \o [i \in DOMAIN order |->
                [about |-> req[r].arg.entity, to |-> order[i], state |-> "unread"]]
    /\ Advance(r)
    /\ UNCHANGED <<world, entry, retired, rating, favorite, journal, due>>

\* By id, so a review deleted meanwhile is updated all the same.
SetEntry(r) ==
    LET arg == req[r].arg IN
    /\ At(r, "set")
    /\ entry' = [entry EXCEPT ![arg.entity] = arg.value]
    /\ Advance(r)
    /\ UNCHANGED <<world, retired, rating, favorite, notice, journal, due>>

\* Mutation: the audit row says what it was set to, twice.
LoggedTwice(arg) == [from |-> arg.value, to |-> arg.value]

\* Mutation: it names the row where the previous value belongs.
LoggedEntity(arg) == [from |-> arg.entity, to |-> arg.value]

Logged(arg) == [from |-> arg.previous, to |-> arg.value]

Log(r) ==
    LET arg == req[r].arg IN
    /\ At(r, "log")
    /\ journal' = [journal EXCEPT ![arg.entity] = Append(@, Logged(arg))]
    /\ Advance(r)
    /\ UNCHANGED <<world, entry, retired, rating, favorite, notice, due>>

Rate(r) ==
    LET arg == req[r].arg IN
    /\ At(r, "rate")
    /\ rating' = [rating EXCEPT ![arg.entity] = arg.rating]
    /\ Advance(r)
    /\ UNCHANGED <<world, entry, retired, favorite, notice, journal, due>>

Retire(r) ==
    /\ At(r, "retire")
    /\ retired' = retired \cup {req[r].arg.entity}
    /\ Advance(r)
    /\ UNCHANGED <<world, entry, rating, favorite, notice, journal, due>>

\* A second row of a pair is a conflict; deleting a row that is gone is an error.
SetFavorite(r) ==
    LET m == req[r].arg.member  x == req[r].arg.thing IN
    /\ \/ /\ At(r, "insertFavorite")
          /\ IF favorite[m][x] = 0
             THEN favorite' = [favorite EXCEPT ![m][x] = @ + 1] /\ Advance(r)
             ELSE Quit(r) /\ UNCHANGED favorite
       \/ /\ At(r, "dropFavorite")
          /\ IF favorite[m][x] > 0
             THEN favorite' = [favorite EXCEPT ![m][x] = @ - 1] /\ Advance(r)
             ELSE Quit(r) /\ UNCHANGED favorite
    /\ UNCHANGED <<world, entry, retired, rating, notice, journal, due>>

SetNotice(r, s, state) ==
    LET n == req[r].arg.notice IN
    /\ At(r, s)
    /\ IF notice[n].state = "removed"
       THEN Quit(r) /\ UNCHANGED notice
       ELSE notice' = [notice EXCEPT ![n].state = state] /\ Advance(r)
    /\ UNCHANGED <<world, entry, retired, rating, favorite, journal, due>>

---------------------------------------------------------------------------
\* Orders are delivered, products and sellers come and go, and so do administrators.
Elsewhere ==
    /\ AtOnce
    /\ \/ \E o \in OrderId \ world.delivered :
             world' = [world EXCEPT !.delivered = @ \cup {o}]
       \/ \E x \in Thing :
             world' = [world EXCEPT !.offered = IF x \in @ THEN @ \ {x} ELSE @ \cup {x}]
       \/ \E a \in Admin :
             world' = [world EXCEPT !.admins = IF a \in @ THEN @ \ {a} ELSE @ \cup {a}]
    /\ UNCHANGED <<entry, retired, rating, favorite, notice, journal, due>>

StartCommunity(r) ==
    \/ \E x \in Review :
          \/ \E n \in Rating : CreateReview(r, x, n) \/ UpdateReview(r, x, n)
          \/ \E v \in ModerationStatus : ModerateReview(r, x, v)
          \/ DeleteReview(r, x)
    \/ \E x \in Review \cup Thing : CreateReport(r, x)
    \/ \E t \in Report, v \in ReportStatus : UpdateReport(r, t, v)
    \/ \E c \in Category :
          \/ \E v \in Visibility : CreateCategory(r, c, v) \/ UpdateCategory(r, c, v)
          \/ RemoveCategory(r, c)
    \/ \E k \in Key, v \in Setting : UpsertSetting(r, k, v)
    \/ \E m \in Member, x \in Thing : AddFavorite(r, m, x) \/ RemoveFavorite(r, m, x)
    \/ \E n \in DOMAIN notice : MarkAsRead(r, n) \/ RemoveNotice(r, n)

CommunityStep(r) ==
    \/ Insert(r) \/ InsertReport(r) \/ FindAdmins(r)
    \/ Tell(r, "tellSeller", {Merchant}) \/ Tell(r, "tellAdmins", req[r].arg.admins)
    \/ SetEntry(r) \/ Log(r) \/ Rate(r) \/ Retire(r) \/ SetFavorite(r)
    \/ SetNotice(r, "markRead", "read") \/ SetNotice(r, "dropNotice", "removed")

CommunityNext ==
    \/ \E r \in Slot : ((StartCommunity(r) \/ Break(r)) /\ UNCHANGED comVars) \/ CommunityStep(r)
    \/ \E u \in Admin \cup {Merchant} : MarkAllAsRead(u)
    \/ Elsewhere

CommunitySpec == ReqInit /\ CommunityInit /\ [][CommunityNext]_<<reqVars, comVars>>

---------------------------------------------------------------------------
(* Properties.                                                             *)

\* The tables hold rows of the shape the schema declares.
CommunityTypeOK ==
    /\ world \in World
    /\ entry \in [Entity -> Value]
    /\ retired \subseteq Review
    /\ rating \in [Review -> Rating \cup {0}]
    /\ favorite \in [Member -> [Thing -> Nat]]
    /\ notice \in Seq(NoticeRow)
    /\ journal \in [Entity -> Seq(JournalRow)]
    /\ due \in [Report -> SUBSET Admin]

Notices(e, u) == {n \in DOMAIN notice : notice[n].about = e /\ notice[n].to = u}

\* However requests overlap and fail, nobody hears of a review or a report that is
\* not there, nor twice of one: though a deleted review is gone from every list, a
\* purchase is reviewed once for good.  Nor does anybody like a thing twice.
\* While requests neither overlap nor fail, the seller hears of every review, and
\* the active administrators, and no others, of every report.
NewsIsDelivered ==
    /\ \A n \in DOMAIN notice :
          /\ entry[notice[n].about] # "NONE"
          /\ Notices(notice[n].about, notice[n].to) = {n}
    /\ \A m \in Member, x \in Thing : favorite[m][x] <= 1
    /\ smooth /\ AllRest =>
          /\ \A x \in Review : entry[x] # "NONE" => Notices(x, Merchant) # {}
          /\ \A t \in Report, a \in Admin :
                Cardinality(Notices(t, a)) = IF a \in due[t] THEN 1 ELSE 0

FirstValue(e) == IF e \in Review THEN "APPROVED" ELSE IF e \in Report THEN "PENDING" ELSE "NONE"

\* While requests neither overlap nor fail, the audit log of a review, a report,
\* a category or a setting leads from its first value to the one it has, each
\* entry from where the one before it ended.  (The deactivation of a category is
\* logged as from ACTIVE, even of one that was inactive.)
JournalLeadsHere ==
    smooth /\ AllRest => \A e \in Entity :
        LET log == journal[e]
            Before(i) == IF i = 1 THEN FirstValue(e) ELSE log[i - 1].to
        IN /\ \A i \in DOMAIN log :
                 \/ log[i].from = Before(i)
                 \/ e \in Category /\ log[i] = [from |-> "ACTIVE", to |-> "INACTIVE"]
           /\ entry[e] = Before(Len(log) + 1) \/ entry[e] = "NONE"

=============================================================================
