------------------------------ MODULE Directives ------------------------------
(***************************************************************************)
(* The ngx_command_t tables of the core, event and mail modules and the    *)
(* fields that their create and init or merge handlers set.  HttpDirectives *)
(* has the HTTP modules, ConfFile what is done with the tables.            *)
(*                                                                         *)
(* A directive is a record: where it may stand, how many arguments it      *)
(* takes, which configuration structure of its module it writes, and the   *)
(* field there.  kind is what its set() handler expects of the field:      *)
(*   unset  one value; a field that is not NGX_CONF_UNSET is a duplicate   *)
(*   null   one value; a field that is not NULL (or empty) is a duplicate  *)
(*   push   a list, made when the field is NGX_CONF_UNSET_PTR              *)
(*   add    a list, made when the field is NULL                            *)
(*   mask   bits that are added to the field                               *)
(*   last   one value, written over an earlier one                         *)
(*   pass   a name, or a script when there are variables in it: two fields *)
(*          that are both NULL at first, else it is a duplicate            *)
(*   store  on or off, or a script: likewise, the first is NGX_CONF_UNSET  *)
(*   either a number, or a script, in two fields that are written over     *)
(*   own    a handler of its own that this model does not follow           *)
(*   block, multi  an own handler of a block; multi is NGX_CONF_MULTI      *)
(* The fields of an embedded ngx_http_upstream_conf_t are named without    *)
(* "upstream." and without "_conf".                                        *)
(***************************************************************************)
EXTENDS Naturals, Sequences, FiniteSets

MaxArgs == 8                            \* NGX_CONF_MAX_ARGS

\* NGX_CONF_1MORE and NGX_CONF_2MORE, as far as the other directives go
More(n) == n .. MaxArgs

\* Where a directive may stand: the contexts of its type.
HSL   == {"http", "server", "location"}
HSLI  == HSL \cup {"lif"}
HSLII == HSLI \cup {"sif"}
HSLE  == HSL \cup {"limit"}
HS    == {"http", "server"}
H     == {"http"}
S     == {"server"}
L     == {"location"}
LI    == {"location", "lif"}
SL    == {"server", "location"}
SLI   == SL \cup {"sif", "lif"}
Main   == {"main"}
Events == {"events"}
Mail   == {"mail", "mserver"}

Cmd(where, args, kind, conf, names) ==
  {[name |-> n[1], field |-> n[2], where |-> where, args |-> args,
    kind |-> kind, conf |-> conf] : n \in names}

\* unset, null: merged from the enclosing block or set to a default, with that
\* mark for "not given"; inherit: only taken over from the enclosing block.
Merged(unset, null, inherit) ==
  [unset |-> unset, null |-> null, inherit |-> inherit]
NotMerged == Merged({}, {}, {})

\* The usual structure: the fields that create marks as unset are, in the code
\* of both functions, the very ones for which merge looks for that mark.
Struct(unset, null, inherit) ==
  [create |-> unset, merge |-> Merged(unset, null, inherit)]

NoConfs   == [main |-> [create |-> {}, merge |-> NotMerged]]

Module(type, name, commands, confs) ==
  [type |-> type, name |-> name, commands |-> commands, confs |-> confs]

\* core/nginx.c
CoreMain == [create |-> {"daemon", "master", "timer_resolution", "worker_processes",
   "debug_points", "user", "rlimit_nofile", "rlimit_core", "rlimit_sigpending",
   "worker_threads", "thread_stack_size"}, merge |-> Merged({"daemon", "master",
   "timer_resolution", "worker_processes", "debug_points", "worker_threads",
   "thread_stack_size"}, {}, {})]
CoreModule == Module("core", "core",
        Cmd(Main, 1..1, "unset", "main", {<<"daemon", "daemon">>,
          <<"master_process", "master">>, <<"timer_resolution", "timer_resolution">>,
          <<"worker_processes", "worker_processes">>, <<"debug_points", "debug_points">>,
          <<"worker_rlimit_nofile", "rlimit_nofile">>,
          <<"worker_rlimit_core", "rlimit_core">>,
          <<"worker_rlimit_sigpending", "rlimit_sigpending">>,
          <<"worker_threads", "worker_threads">>,
          <<"thread_stack_size", "thread_stack_size">>})
   \cup Cmd(Main, 1..1, "null", "main", {<<"pid", "pid">>, <<"lock_file", "lock_file">>,
          <<"worker_priority", "priority">>, <<"working_directory", "working_directory">>})
   \cup Cmd(Main, 1..2, "unset", "main", {<<"user", "user">>})
   \cup Cmd(Main, More(1), "null", "main", {<<"worker_cpu_affinity", "cpu_affinity">>})
   \cup Cmd(Main, 1..1, "add", "main", {<<"env", "env">>}),
   [main |-> CoreMain])

\* core/ngx_conf_file.c
ConfModule == Module("conf", "conf",
        Cmd({"any"}, 1..1, "own", "main", {<<"include", "">>}),
   NoConfs)

\* core/ngx_log.c
ErrlogModule == Module("core", "errlog",
        Cmd(Main, More(1), "own", "main", {<<"error_log", "">>}),
   NoConfs)

\* event/modules/ngx_devpoll_module.c
DevpollMain == Struct({"changes", "events"}, {}, {})
DevpollModule == Module("event", "devpoll",
        Cmd(Events, 1..1, "unset", "main", {<<"devpoll_changes", "changes">>,
          <<"devpoll_events", "events">>}),
   [main |-> DevpollMain])

\* event/modules/ngx_epoll_module.c
EpollMain == Struct({"events", "aio_requests"}, {}, {})
EpollModule == Module("event", "epoll",
        Cmd(Events, 1..1, "unset", "main", {<<"epoll_events", "events">>,
          <<"worker_aio_requests", "aio_requests">>}),
   [main |-> EpollMain])

\* event/modules/ngx_eventport_module.c
EventportMain == Struct({"events"}, {}, {})
EventportModule == Module("event", "eventport",
        Cmd(Events, 1..1, "unset", "main", {<<"eventport_events", "events">>}),
   [main |-> EventportMain])

\* event/modules/ngx_kqueue_module.c
KqueueMain == Struct({"changes", "events"}, {}, {})
KqueueModule == Module("event", "kqueue",
        Cmd(Events, 1..1, "unset", "main", {<<"kqueue_changes", "changes">>,
          <<"kqueue_events", "events">>}),
   [main |-> KqueueMain])

\* event/modules/ngx_rtsig_module.c
RtsigMain == Struct({"signo", "overflow_events", "overflow_test", "overflow_threshold"}, {},
   {})
RtsigModule == Module("event", "rtsig",
        Cmd(Events, 1..1, "unset", "main", {<<"rtsig_signo", "signo">>,
          <<"rtsig_overflow_events", "overflow_events">>,
          <<"rtsig_overflow_test", "overflow_test">>,
          <<"rtsig_overflow_threshold", "overflow_threshold">>}),
   [main |-> RtsigMain])

\* event/ngx_event.c
EventsModule == Module("core", "events",
        Cmd(Main, 0..0, "block", "main", {<<"events", "">>}),
   NoConfs)

\* event/ngx_event.c
EventCoreMain == Struct({"connections", "use", "multi_accept", "accept_mutex",
   "accept_mutex_delay"}, {}, {})
EventCoreModule == Module("event", "event_core",
        Cmd(Events, 1..1, "unset", "main", {<<"worker_connections", "connections">>,
          <<"connections", "connections">>, <<"use", "use">>,
          <<"multi_accept", "multi_accept">>, <<"accept_mutex", "accept_mutex">>,
          <<"accept_mutex_delay", "accept_mutex_delay">>})
   \cup Cmd(Events, 1..1, "add", "main", {<<"debug_connection", "debug_connection">>}),
   [main |-> EventCoreMain])

\* event/ngx_event_openssl.c
OpensslCreateMain == {}
OpensslModule == Module("core", "openssl",
        Cmd(Main, 1..1, "null", "main", {<<"ssl_engine", "engine">>}),
   [main |-> [create |-> OpensslCreateMain, merge |-> NotMerged]])

\* mail/ngx_mail.c
MailModule == Module("core", "mail",
        Cmd(Main, 0..0, "block", "main", {<<"mail", "">>, <<"imap", "">>}),
   NoConfs)

\* mail/ngx_mail_auth_http_module.c
MailAuthHttpSrv == Struct({"timeout"}, {}, {"headers"})
MailAuthHttpModule == Module("mail", "mail_auth_http",
        Cmd(Mail, 1..1, "own", "srv", {<<"auth_http", "">>})
   \cup Cmd(Mail, 1..1, "unset", "srv", {<<"auth_http_timeout", "timeout">>})
   \cup Cmd(Mail, 2..2, "add", "srv", {<<"auth_http_header", "headers">>}),
   [srv |-> MailAuthHttpSrv])

\* mail/ngx_mail_core_module.c
MailCoreSrv == Struct({"so_keepalive", "timeout", "resolver", "resolver_timeout"},
   {"server_name"}, {})
MailCoreModule == Module("mail", "mail_core",
        Cmd({"mail"}, 0..0, "block", "main", {<<"server", "">>})
   \cup Cmd({"mserver"}, 1..2, "own", "srv", {<<"listen", "">>})
   \cup Cmd({"mserver"}, 1..1, "own", "srv", {<<"protocol", "">>})
   \cup Cmd(Mail, 1..1, "unset", "srv", {<<"so_keepalive", "so_keepalive">>,
          <<"timeout", "timeout">>, <<"resolver", "resolver">>,
          <<"resolver_timeout", "resolver_timeout">>})
   \cup Cmd(Mail, 1..1, "null", "srv", {<<"server_name", "server_name">>}),
   [srv |-> MailCoreSrv])

\* mail/ngx_mail_imap_module.c
MailImapSrv == Struct({"client_buffer_size"}, {"auth_methods"}, {"capabilities"})
MailImapModule == Module("mail", "mail_imap",
        Cmd(Mail, 1..1, "unset", "srv", {<<"imap_client_buffer", "client_buffer_size">>})
   \cup Cmd(Mail, More(1), "add", "srv", {<<"imap_capabilities", "capabilities">>})
   \cup Cmd(Mail, More(1), "mask", "srv", {<<"imap_auth", "auth_methods">>}),
   [srv |-> MailImapSrv])

\* mail/ngx_mail_pop3_module.c
MailPop3CreateSrv == {}
MailPop3MergeSrv == Merged({}, {"auth_methods"}, {"capabilities"})
MailPop3Module == Module("mail", "mail_pop3",
        Cmd(Mail, More(1), "add", "srv", {<<"pop3_capabilities", "capabilities">>})
   \cup Cmd(Mail, More(1), "mask", "srv", {<<"pop3_auth", "auth_methods">>}),
   [srv |-> [create |-> MailPop3CreateSrv, merge |-> MailPop3MergeSrv]])

\* mail/ngx_mail_proxy_module.c
MailProxySrv == Struct({"enable", "buffer_size", "timeout", "pass_error_message",
   "xclient"}, {}, {})
MailProxyModule == Module("mail", "mail_proxy",
        Cmd(Mail, 1..1, "unset", "srv", {<<"proxy", "enable">>,
          <<"proxy_buffer", "buffer_size">>, <<"proxy_timeout", "timeout">>,
          <<"proxy_pass_error_message", "pass_error_message">>, <<"xclient", "xclient">>}),
   [srv |-> MailProxySrv])

\* mail/ngx_mail_smtp_module.c
MailSmtpSrv == Struct({"client_buffer_size", "greeting_delay"}, {"auth_methods"},
   {"capabilities"})
MailSmtpModule == Module("mail", "mail_smtp",
        Cmd(Mail, 1..1, "unset", "srv", {<<"smtp_client_buffer", "client_buffer_size">>,
          <<"smtp_greeting_delay", "greeting_delay">>})
   \cup Cmd(Mail, More(1), "add", "srv", {<<"smtp_capabilities", "capabilities">>})
   \cup Cmd(Mail, More(1), "mask", "srv", {<<"smtp_auth", "auth_methods">>}),
   [srv |-> MailSmtpSrv])

\* mail/ngx_mail_ssl_module.c
MailSslCreateSrv == {"enable", "starttls", "prefer_server_ciphers", "session_timeout"}
MailSslMergeSrv == Merged({"enable", "starttls", "prefer_server_ciphers",
   "session_timeout"}, {"certificate", "certificate_key", "dhparam", "ecdh_curve",
   "protocols", "ciphers"}, {})
MailSslModule == Module("mail", "mail_ssl",
        Cmd(Mail, 1..1, "unset", "srv", {<<"ssl", "enable">>, <<"starttls", "starttls">>,
          <<"ssl_prefer_server_ciphers", "prefer_server_ciphers">>,
          <<"ssl_session_timeout", "session_timeout">>})
   \cup Cmd(Mail, 1..1, "null", "srv", {<<"ssl_certificate", "certificate">>,
          <<"ssl_certificate_key", "certificate_key">>, <<"ssl_dhparam", "dhparam">>,
          <<"ssl_ecdh_curve", "ecdh_curve">>, <<"ssl_ciphers", "ciphers">>})
   \cup Cmd(Mail, More(1), "mask", "srv", {<<"ssl_protocols", "protocols">>})
   \cup Cmd(Mail, 1..2, "own", "srv", {<<"ssl_session_cache", "">>}),
   [srv |-> [create |-> MailSslCreateSrv, merge |-> MailSslMergeSrv]])

\* misc/ngx_google_perftools_module.c
GooglePerftoolsCreateMain == {}
GooglePerftoolsModule == Module("core", "google_perftools",
        Cmd(Main, 1..1, "null", "main", {<<"google_perftools_profiles", "profiles">>}),
   [main |-> [create |-> GooglePerftoolsCreateMain, merge |-> NotMerged]])

==============================================================================
