------------------------------ MODULE MCWorker ------------------------------
(* Small instances of OutboxWorker. *)
EXTENDS OutboxWorker, TLC

\* A notification, the email its dispatch inserts, and the scan of a file.
MCTopic  == "notice" :> "notification.dispatch" @@ "mail" :> "email.deliver"
              @@ "scan" :> "file.scan"
MCParent == "notice" :> "notice" @@ "mail" :> "notice" @@ "scan" :> "scan"

MCMaxAttempts == "notice" :> 1 @@ "mail" :> 2 @@ "scan" :> 1
=============================================================================
