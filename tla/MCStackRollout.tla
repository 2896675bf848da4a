--------------------------- MODULE MCStackRollout ---------------------------
(***************************************************************************)
(* Instances of StackRollout for TLC.                                      *)
(***************************************************************************)
EXTENDS StackRollout

CONSTANTS web, api, p1, p2, db, v0, v1, v2

Absent == [image |-> v0, hook |-> FALSE, needs |-> {}, procs |-> {}, ported |-> {}]

Service(image, hook, needs, procs, ported) ==
    [image |-> image, hook |-> hook, needs |-> needs, procs |-> procs, ported |-> ported]

Of(f, backing) == [svc |-> [s \in Services |-> IF s \in DOMAIN f THEN f[s] ELSE Absent],
                   backing |-> backing]

One(service, backing) == Of([s \in {web} |-> service], backing)

\* One service with a migration against a database, in two versions.
Migrating == {One(Service(v1, TRUE, {db}, {p1}, {p1}), {db}),
              One(Service(v2, TRUE, {db}, {p1}, {p1}), {db})}

\* A service without an image, with a database, with a migration instead.
Turning == {One(Service(v0, TRUE, {db}, {p1}, {}), {}),
            One(Service(v1, FALSE, {db}, {p1}, {}), {db}),
            One(Service(v2, TRUE, {}, {p1}, {p1}), {})}

\* Two services, one that migrates and one without an image; then both migrate.
Pair == {Of([s \in {web, api} |-> IF s = web THEN Service(v1, TRUE, {db}, {p1}, {p1})
                                  ELSE Service(v0, FALSE, {}, {p1}, {})], {db}),
         Of([s \in {web, api} |-> IF s = web THEN Service(v2, TRUE, {db}, {p1}, {p1})
                                  ELSE Service(v2, TRUE, {}, {p1}, {})], {db})}
=============================================================================
