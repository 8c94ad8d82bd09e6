----------------------------- MODULE JsonPlaceholder -----------------------------
(***************************************************************************)
(* JsonPlaceholderConnector: users become contacts and posts become        *)
(* tickets, linked to the contact of their author, or tasks.               *)
(***************************************************************************)
EXTENDS ConnectorRun

CONSTANTS
    Users, Posts,
    AuthorOf,   \* AuthorOf[p]: its userId, or Anonymous
    Anonymous,
    Versions    \* what else a user or a post may say

\* source.users[u], source.posts[p]: a version, or "absent", or "idless"; a post may be
\* "untitled".  source.models: the models for posts that Odoo has.
UserRows == Versions \cup {"absent", "idless"}
PostRows == UserRows \cup {"untitled"}
Models   == {"helpdesk.ticket", "project.task"}

Partner(u) == <<"res.partner", u>>

Init ==
    /\ RunInit
    /\ \E models \in SUBSET Models : LET version == CHOOSE v \in Versions : TRUE IN
        source = [users |-> [u \in Users |-> version], posts |-> [p \in Posts |-> version],
                  models |-> models]
    /\ odoo = <<>>

\* What a run knows: the model of its posts, _seen_user_ids and _partner_by_user_id.
NoMemory == [phase |-> "users", model |-> "none", seen |-> {}, partner |-> [u \in Users |-> 0]]

Start == Begin("hosts", <<>>)

\* _resolve_base_url and the head of _sync_users: one of the two hosts answers with the
\* users, who are preloaded; or neither does.
FetchUsers ==
    LET present == {u \in Users : source.users[u] # "absent"}
        keys == {Partner(u) : u \in {x \in present : source.users[x] # "idless"}}
        Fetched(cache) ==
            [run EXCEPT !.pc = "next", !.mem = NoMemory, !.cache = cache,
                        !.todo = SetToSeq({[key |-> Partner(u), hash |-> source.users[u]] : u \in present})]
    IN
    /\ run.pc = "hosts"
    /\ \/ Well(Fetched(Preloaded(keys)))
       \/ Ill(Fetched({}))
       \/ Ill(Aborted([run EXCEPT !.mem = "none"]))
    /\ UNCHANGED <<source, odoo, reviews, log, changes>>

TakeUser ==
    LET row == Head(run.todo) IN
    /\ run.pc = "next" /\ run.todo # <<>>
    /\ run.mem.phase = "users"
    /\ Well(IF row.hash = "idless" THEN Failed(TakenUp(run, row))
            ELSE [TakenUp(run, row) EXCEPT !.pc = "find", !.mem.seen = @ \cup {row.key[2]}])
    /\ UNCHANGED <<source, odoo, reviews, log, changes>>

Contact(key, version) == [key |-> key, hash |-> version, link |-> 0]

SyncUser ==
    /\ run.mem.phase = "users"
    /\ Upsert(Contact(run.at.key, run.at.hash),
              LAMBDA old : Contact(run.at.key, run.at.hash),
              LAMBDA r, outcome, id : Onward([r EXCEPT !.mem.partner[run.at.key[2]] = id]))
-------------------------------------------------------------------------------
\* _resolve_post_model: a model that cannot be read counts as one that is not there.
PostModel(readable) ==
    IF "helpdesk.ticket" \in readable THEN "helpdesk.ticket"
    ELSE IF "project.task" \in readable THEN "project.task" ELSE "none"

\* The head of _sync_posts: the posts are read, their model is resolved, and what Odoo
\* has of them is preloaded.  Posts that cannot be read count as one failure; without a
\* model there is nothing to do.
FetchPosts ==
    LET present == {p \in Posts : source.posts[p] # "absent"}
        Fetched(model, cache) ==
            [run EXCEPT !.mem.phase = "posts", !.mem.model = model, !.cache = cache,
                        !.todo = IF model = "none" THEN <<>>
                                 ELSE SetToSeq({[key |-> <<model, p>>, hash |-> source.posts[p]] : p \in present})]
        Keys(model) == {<<model, p>> : p \in present}
    IN
    /\ run.pc = "next" /\ run.todo = <<>>
    /\ run.mem.phase = "users"
    /\ \/ Well(Fetched(PostModel(source.models), Preloaded(Keys(PostModel(source.models)))))
       \/ Ill(Fetched(PostModel(source.models), {}))
       \/ \E readable \in SUBSET source.models :
            /\ readable # source.models
            /\ Ill(Fetched(PostModel(readable), Preloaded(Keys(PostModel(readable)))))
       \/ Ill(Counted([run EXCEPT !.mem.phase = "posts", !.handed = @ + 1], "failed"))
    /\ UNCHANGED <<source, odoo, reviews, log, changes>>

\* An author without a contact is a gap, unless it is the dry run that left it out.
ReviewAuthor(author, link) ==
    author # Anonymous /\ link = 0 /\ ~(run.dry /\ author \in run.mem.seen)

\* The head of _map_post: the author is looked up, here or in Odoo.
TakePost ==
    LET row == Head(run.todo)
        author == AuthorOf[row.key[2]]
        Mapped(link) ==
            LET why == IF row.hash = "untitled" THEN "title"
                       ELSE IF ReviewAuthor(author, link) THEN "author" ELSE "none"
                linked == IF run.mem.model = "helpdesk.ticket" THEN link ELSE 0
            IN  [TakenUp(run, [key |-> row.key, hash |-> <<row.hash, linked>>, link |-> linked, why |-> why])
                    EXCEPT !.pc = IF why = "none" THEN "find" ELSE "review",
                           !.mem.partner = IF author = Anonymous THEN @ ELSE [@ EXCEPT ![author] = link]]
    IN
    /\ run.pc = "next" /\ run.todo # <<>>
    /\ run.mem.phase = "posts"
    /\ IF row.hash = "idless" THEN Well(Failed(TakenUp(run, row)))
       ELSE IF author = Anonymous THEN Well(Mapped(0))
       ELSE IF run.mem.partner[author] # 0 THEN Well(Mapped(run.mem.partner[author]))
       ELSE Well(Mapped(Lookup(Partner(author)).id)) \/ Ill(Mapped(0))
    /\ UNCHANGED <<source, odoo, reviews, log, changes>>

\* A post without a title is withheld, and fails; one without a contact is imported, and
\* flagged.
ReviewPost ==
    /\ run.pc = "review"
    /\ Raise(<<run.at.why, run.at.key[2]>>,
             IF run.at.why = "title" THEN Failed(run) ELSE [run EXCEPT !.pc = "find"])
    /\ UNCHANGED <<source, odoo, log, changes>>

\* The rest of _map_post, and the upsert.  A value that is left out of a write stays.
SyncPost ==
    LET post == [key |-> run.at.key, hash |-> run.at.hash, link |-> run.at.link] IN
    /\ run.mem.phase = "posts"
    /\ Upsert(post,
              LAMBDA old : IF post.link = 0 THEN [post EXCEPT !.link = old.link] ELSE post,
              LAMBDA r, outcome, id : Onward(r))

\* _demonstrate_writes: what it sends is kept nowhere and counted nowhere; an error that
\* _echo and _write_source do not expect is.
Demonstrate ==
    LET over == [run EXCEPT !.mem = run.mem.model] IN
    /\ run.pc = "next" /\ run.todo = <<>>
    /\ run.mem.phase = "posts"
    /\ \/ Well(Synced(over))
       \/ Ill(Synced(Counted([over EXCEPT !.handed = @ + 1], "failed")))
    /\ UNCHANGED <<source, odoo, reviews, log, changes>>
-------------------------------------------------------------------------------
OtherRun ==
    \E u \in Users :
        /\ source.users[u] \in Versions
        /\ Overlap(Contact(Partner(u), source.users[u]), LAMBDA old : Contact(Partner(u), source.users[u]))

\* The provider changes a user or a post.
Republish ==
    /\ \/ \E u \in Users, row \in UserRows : source' = [source EXCEPT !.users[u] = row]
       \/ \E p \in Posts, row \in PostRows : source' = [source EXCEPT !.posts[p] = row]
    /\ source' # source
    /\ Change
    /\ UNCHANGED <<odoo, reviews>>

Step ==
    \/ FetchUsers \/ TakeUser \/ FetchPosts \/ TakePost \/ ReviewPost \/ Find
    \/ (run.pc = "apply" /\ (SyncUser \/ SyncPost)) \/ Demonstrate \/ WriteLog

Next == Start \/ Step \/ Crash \/ OtherRun \/ Republish \/ CloseReview

Spec == Init /\ [][Next]_vars
-------------------------------------------------------------------------------
TypeOK ==
    /\ RunTypeOK
    /\ run.pc \in {"idle", "hosts", "next", "review", "find", "apply", "log", "done", "raised"}
    /\ source.users \in [Users -> UserRows]
    /\ source.posts \in [Posts -> PostRows]
    /\ source.models \subseteq Models
    /\ \A i \in 1..Len(odoo) : odoo[i].link \in 0..Len(odoo)
    /\ BagToSet(reviews) \subseteq {"title", "author"} \X Posts

\* Contacts say what their users say, and the posts of the run's model what theirs say;
\* after a run in which nothing went wrong, a ticket is linked to its author's contact.
InStep ==
    /\ \A u \in Users : source.users[u] \in Versions => Holds(Partner(u), source.users[u])
    /\ run.mem # "none" =>
        \A p \in Posts : source.posts[p] \in Versions =>
            LET i == Lookup(<<run.mem, p>>).id
                author == Lookup(Partner(AuthorOf[p])) IN
            /\ i # 0 /\ odoo[i].hash[1] = source.posts[p]
            /\ run.clean /\ run.mem = "helpdesk.ticket" /\ author.id # 0 => odoo[i].link = author.id

SuccessMeansSynced ==
    run.pc = "done" /\ log.status = "success" /\ run.steady /\ ~run.dry => InStep

\* Posts that are not imported, and those imported without a link, have an open activity.
Gaps ==
    {<<"title", p>> : p \in {x \in Posts : source.posts[x] = "untitled"}}
    \cup {<<"author", p>> : p \in {x \in Posts :
            source.posts[x] \in Versions /\ AuthorOf[x] # Anonymous /\ Lookup(Partner(AuthorOf[x])) = NoRecord}}

GapsAreFlagged ==
    run.pc = "done" /\ run.clean /\ ~run.dry /\ run.mem # "none" => Gaps \subseteq BagToSet(reviews)

\* A post has one record, whichever model it was put into.
PostsOnce ==
    \A p \in Posts : Cardinality({i \in 1..Len(odoo) : odoo[i].key \in Models \X {p}}) <= 1 + mishaps
==================================================================================
