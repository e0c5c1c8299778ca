------------------------------ MODULE MCOutbox ------------------------------
(* Instances of Outbox for TLC. *)
EXTENDS Outbox, TLC

\* Two handlers that commit themselves; one that swallows its failures.
MergeAndRefresh == <<"StoriesMerged", "ProjectionRefreshRequested">>

\* Three handlers, one whose payload has nothing for it and one that looks
\* before it inserts, not being the first; and an event without handlers.
PublishAndBriefing == <<"ArticlePublished", "DailyBriefingEditionGenerated">>
PublishOnly == <<{"article_published_projection", "story_timeline_event"}, {}>>

\* One handler that commits itself.
Thumbnail == <<"ArticleThumbnailUpdated">>

\* The handler that raises.
Subscribe == <<"NewsletterSubscriptionCreated">>

All1 == <<Handler>>
All2 == <<Handler, Handler>>

Symmetry == Permutations(Worker)

=============================================================================
