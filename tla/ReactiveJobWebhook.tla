------------------------- MODULE ReactiveJobWebhook -------------------------
(***************************************************************************)
(* The admission webhook of internal/webhooks, which the API server calls  *)
(* for every creation and update of a ReactiveJob, the operator's own      *)
(* included, but not for updates of the status or for deletions. It        *)
(* refuses a template of which the API server would not create a job now:  *)
(* that depends on the cluster (permissions, policies, other webhooks) and *)
(* can change while the object is there.                                   *)
(*                                                                         *)
(* A template with a name or a namespace of its own is one that is never   *)
(* accepted; a webhook that does not answer, or a dry run that takes more  *)
(* than its ten seconds, is a call that fails without effect.              *)
(***************************************************************************)
EXTENDS ReactiveJobTypes

CONSTANT Breakable   \* the templates that can become unacceptable

ASSUME BreakableAssumption == Breakable \subseteq Templates

VARIABLE creatable   \* the templates of which a job can be created now

WebhookTypeOK == creatable \in SUBSET Templates

WebhookInit == creatable = Templates

\* The dry run of the creation of a job.
DryRun(tmpl) == tmpl \in creatable

\* Mutant: objects marked for deletion are validated, too.
ValidateAlways(obj) == DryRun(obj.tmpl)

Validate(obj) == obj.deleting \/ DryRun(obj.tmpl)
=============================================================================
