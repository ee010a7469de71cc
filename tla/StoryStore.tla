----------------------------- MODULE StoryStore -----------------------------
(***************************************************************************)
(* The PostgreSQL rows of one user that the story pipeline reads and       *)
(* writes, and the StoryRepo queries on them                               *)
(* (internal/infrastructure/repository/postgres/user_postgres.go).         *)
(*                                                                         *)
(* A user's preferences never change after verification and name the story *)
(* file, and migrations/..._create_stories_table.sql makes (user_id,       *)
(* file_name) unique: a user has at most one story. So a user, his story   *)
(* and his story job are one value j, and UploadStory, whose WHERE clause  *)
(* names only the user, updates exactly that story.                        *)
(***************************************************************************)
JobStatus == {"pending", "processing", "completed", "failed"}

(***************************************************************************)
(* user       the row of users exists                                      *)
(* story      the row of stories: none, with empty text, with its text     *)
(* storyJob   the status in story_jobs, or no row                          *)
(* emailJobs  the statuses found in the rows of email_jobs: each execution *)
(*            of the story job inserts a row, an update changes all of them*)
(***************************************************************************)
UserRows == [user: BOOLEAN, story: {"absent", "empty", "uploaded"},
             storyJob: JobStatus \cup {"absent"}, emailJobs: SUBSET JobStatus]

VerifiedUser == [user |-> TRUE, story |-> "absent", storyJob |-> "absent", emailJobs |-> {}]

SaveStoryInfo(r) == [r EXCEPT !.story = "empty"]
SaveStoryJob(r)  == [r EXCEPT !.storyJob = "pending"]

\* The executer's writes need the story row: the UPDATE finds it by the user,
\* the INSERT names it in a foreign key. Without it they change nothing.
HasStory(r)     == r.story # "absent"
UploadStory(r)  == IF HasStory(r) THEN [r EXCEPT !.story = "uploaded"] ELSE r
SaveEmailJobUnchecked(r) == [r EXCEPT !.emailJobs = @ \cup {"pending"}]   \* mutant: no foreign key
SaveEmailJob(r) == IF HasStory(r) THEN [r EXCEPT !.emailJobs = @ \cup {"pending"}] ELSE r

\* The UPDATEs change the rows there are; with none they report "not found".
UpdateStoryJob(r, status) ==
  [r EXCEPT !.storyJob = IF @ = "absent" THEN @ ELSE status]
UpdateEmailJob(r, status) ==
  [r EXCEPT !.emailJobs = IF @ = {} THEN {} ELSE {status}]

\* delete from users: every table the pipeline uses cascades.
DeleteUserByID(r) ==
  [user |-> FALSE, story |-> "absent", storyJob |-> "absent", emailJobs |-> {}]
=============================================================================
