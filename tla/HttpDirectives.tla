------------------------------ MODULE HttpDirectives --------------------------
(***************************************************************************)
(* The directives of the HTTP modules and the fields that their           *)
(* create_*_conf() and merge_*_conf() handlers set: see Directives.        *)
(***************************************************************************)
EXTENDS Directives

\* http/modules/ngx_http_access_module.c
AccessLoc == Struct({}, {}, {"rules"})
AccessModule == Module("http", "access",
        Cmd(HSLE, 1..1, "add", "loc", {<<"allow", "rules">>, <<"deny", "rules">>}),
   [loc |-> AccessLoc])

\* http/modules/ngx_http_addition_filter_module.c
AdditionFilterLoc == Struct({}, {"before_body", "after_body", "types_keys"}, {})
AdditionFilterModule == Module("http", "addition_filter",
        Cmd(HSL, 1..1, "null", "loc", {<<"add_before_body", "before_body">>,
          <<"add_after_body", "after_body">>})
   \cup Cmd(HSL, More(1), "add", "loc", {<<"addition_types", "types_keys">>}),
   [loc |-> AdditionFilterLoc])

\* http/modules/ngx_http_auth_basic_module.c
AuthBasicLoc == Struct({}, {}, {"realm", "user_file"})
AuthBasicModule == Module("http", "auth_basic",
        Cmd(HSLE, 1..1, "null", "loc", {<<"auth_basic", "realm">>,
          <<"auth_basic_user_file", "user_file">>}),
   [loc |-> AuthBasicLoc])

\* http/modules/ngx_http_autoindex_module.c
AutoindexLoc == Struct({"enable", "localtime", "exact_size"}, {}, {})
AutoindexModule == Module("http", "autoindex",
        Cmd(HSL, 1..1, "unset", "loc", {<<"autoindex", "enable">>,
          <<"autoindex_localtime", "localtime">>, <<"autoindex_exact_size", "exact_size">>}),
   [loc |-> AutoindexLoc])

\* http/modules/ngx_http_browser_module.c
BrowserLoc == Struct({}, {}, {"modern_browsers", "ancient_browsers", "modern_browser_value",
   "ancient_browser_value"})
BrowserModule == Module("http", "browser",
        Cmd(HSL, 1..2, "add", "loc", {<<"modern_browser", "modern_browsers">>})
   \cup Cmd(HSL, More(1), "add", "loc", {<<"ancient_browser", "ancient_browsers">>})
   \cup Cmd(HSL, 1..1, "last", "loc", {<<"modern_browser_value", "modern_browser_value">>,
          <<"ancient_browser_value", "ancient_browser_value">>}),
   [loc |-> BrowserLoc])

\* http/modules/ngx_http_charset_filter_module.c
CharsetFilterLoc == Struct({"charset", "source_charset", "override_charset"},
   {"types_keys"}, {})
CharsetFilterModule == Module("http", "charset_filter",
        Cmd(HSLI, 1..1, "unset", "loc", {<<"charset", "charset">>,
          <<"source_charset", "source_charset">>,
          <<"override_charset", "override_charset">>})
   \cup Cmd(HSL, More(1), "add", "loc", {<<"charset_types", "types_keys">>})
   \cup Cmd(H, 2..2, "block", "main", {<<"charset_map", "">>}),
   [loc |-> CharsetFilterLoc])

\* http/modules/ngx_http_dav_module.c
DavLoc == Struct({"create_full_put_path", "min_delete_depth", "access"}, {"methods"}, {})
DavModule == Module("http", "dav",
        Cmd(HSL, More(1), "mask", "loc", {<<"dav_methods", "methods">>})
   \cup Cmd(HSL, 1..1, "unset", "loc", {<<"create_full_put_path", "create_full_put_path">>,
          <<"min_delete_depth", "min_delete_depth">>})
   \cup Cmd(HSL, 1..3, "unset", "loc", {<<"dav_access", "access">>}),
   [loc |-> DavLoc])

\* http/modules/ngx_http_degradation_module.c
DegradationCreateMain == {}
DegradationLoc == Struct({"degrade"}, {}, {})
DegradationModule == Module("http", "degradation",
        Cmd(H, 1..1, "last", "main", {<<"degradation", "sbrk_size">>})
   \cup Cmd(HSL, 1..1, "unset", "loc", {<<"degrade", "degrade">>}),
   [main |-> [create |-> DegradationCreateMain, merge |-> NotMerged], loc |->
      DegradationLoc])

\* http/modules/ngx_http_empty_gif_module.c
EmptyGifCommands ==
       Cmd(L, 0..0, "own", "main", {<<"empty_gif", "">>})
EmptyGifModule == Module("http", "empty_gif", EmptyGifCommands, NoConfs)

\* http/modules/ngx_http_fastcgi_module.c
FastcgiCommands1 ==
       Cmd(LI, 1..1, "pass", "loc", {<<"fastcgi_pass", "upstream">>})
  \cup Cmd(HSL, 1..1, "null", "loc", {<<"fastcgi_index", "index">>,
         <<"fastcgi_cache_key", "cache_key">>})
  \cup Cmd(HSL, 1..1, "own", "loc", {<<"fastcgi_split_path_info", "">>})
  \cup Cmd(HSL, 1..1, "store", "loc", {<<"fastcgi_store", "store">>})
  \cup Cmd(HSL, 1..1, "unset", "loc", {<<"fastcgi_ignore_client_abort", "ignore_client_abort">>,
         <<"fastcgi_connect_timeout", "connect_timeout">>,
         <<"fastcgi_send_timeout", "send_timeout">>, <<"fastcgi_send_lowat", "send_lowat">>,
         <<"fastcgi_buffer_size", "buffer_size">>,
         <<"fastcgi_pass_request_headers", "pass_request_headers">>,
         <<"fastcgi_pass_request_body", "pass_request_body">>,
         <<"fastcgi_intercept_errors", "intercept_errors">>,
         <<"fastcgi_read_timeout", "read_timeout">>,
         <<"fastcgi_busy_buffers_size", "busy_buffers_size">>,
         <<"fastcgi_cache", "cache">>})
  \cup Cmd(HSL, 1..3, "unset", "loc", {<<"fastcgi_store_access", "store_access">>})
  \cup Cmd(HSL, 1..1, "last", "loc", {<<"fastcgi_bind", "local">>})
  \cup Cmd(HSL, 2..2, "null", "loc", {<<"fastcgi_buffers", "bufs">>})
  \cup Cmd(H, More(2), "own", "main", {<<"fastcgi_cache_path", "">>})
FastcgiCommands2 ==
       Cmd(HSL, More(1), "push", "loc", {<<"fastcgi_cache_bypass", "cache_bypass">>,
         <<"fastcgi_no_cache", "no_cache">>, <<"fastcgi_cache_valid", "cache_valid">>})
  \cup Cmd(HSL, 1..1, "unset", "loc", {<<"fastcgi_cache_min_uses", "cache_min_uses">>,
         <<"fastcgi_max_temp_file_size", "max_temp_file_size">>,
         <<"fastcgi_temp_file_write_size", "temp_file_write_size">>})
  \cup Cmd(HSL, More(1), "mask", "loc", {<<"fastcgi_cache_use_stale", "cache_use_stale">>,
         <<"fastcgi_cache_methods", "cache_methods">>,
         <<"fastcgi_next_upstream", "next_upstream">>,
         <<"fastcgi_ignore_headers", "ignore_headers">>})
  \cup Cmd(HSL, 1..4, "null", "loc", {<<"fastcgi_temp_path", "temp_path">>})
  \cup Cmd(HSL, 2..2, "add", "loc", {<<"fastcgi_param", "params_source">>})
  \cup Cmd(HSL, 1..1, "push", "loc", {<<"fastcgi_pass_header", "pass_headers">>,
         <<"fastcgi_hide_header", "hide_headers">>,
         <<"fastcgi_catch_stderr", "catch_stderr">>})
FastcgiCreateLoc == {"store", "store_access", "ignore_client_abort", "connect_timeout",
   "send_timeout", "send_lowat", "buffer_size", "pass_request_headers", "pass_request_body",
   "intercept_errors", "read_timeout", "busy_buffers_size", "cache", "cache_bypass",
   "no_cache", "cache_valid", "cache_min_uses", "max_temp_file_size",
   "temp_file_write_size", "pass_headers", "hide_headers", "catch_stderr"}
FastcgiInherited == {"upstream", "cache_key", "cache_methods", "params_source",
   "pass_headers", "hide_headers"}
FastcgiMergeLoc == Merged(FastcgiCreateLoc \ {"pass_headers", "hide_headers"}, {"index",
   "bufs", "cache_use_stale", "temp_path", "next_upstream", "ignore_headers"},
   FastcgiInherited)
FastcgiModule == Module("http", "fastcgi", FastcgiCommands1 \cup FastcgiCommands2, [loc |->
   [create |-> FastcgiCreateLoc, merge |-> FastcgiMergeLoc]])

\* http/modules/ngx_http_flv_module.c
FlvModule == Module("http", "flv",
        Cmd(L, 0..0, "own", "main", {<<"flv", "">>}),
   NoConfs)

\* http/modules/ngx_http_geo_module.c
GeoModule == Module("http", "geo",
        Cmd(H, 1..2, "block", "main", {<<"geo", "">>}),
   NoConfs)

\* http/modules/ngx_http_geoip_module.c
GeoipCreateMain == {}
GeoipModule == Module("http", "geoip",
        Cmd(H, 1..2, "null", "main", {<<"geoip_country", "country">>,
          <<"geoip_org", "org">>, <<"geoip_city", "city">>}),
   [main |-> [create |-> GeoipCreateMain, merge |-> NotMerged]])

\* http/modules/ngx_http_gzip_filter_module.c
GzipFilterLoc == Struct({"enable", "level", "wbits", "memlevel", "postpone_gzipping",
   "no_buffer", "min_length"}, {"bufs", "types_keys"}, {})
GzipFilterModule == Module("http", "gzip_filter",
        Cmd(HSLI, 1..1, "unset", "loc", {<<"gzip", "enable">>})
   \cup Cmd(HSL, 2..2, "null", "loc", {<<"gzip_buffers", "bufs">>})
   \cup Cmd(HSL, More(1), "add", "loc", {<<"gzip_types", "types_keys">>})
   \cup Cmd(HSL, 1..1, "unset", "loc", {<<"gzip_comp_level", "level">>,
          <<"gzip_window", "wbits">>, <<"gzip_hash", "memlevel">>,
          <<"postpone_gzipping", "postpone_gzipping">>, <<"gzip_no_buffer", "no_buffer">>,
          <<"gzip_min_length", "min_length">>}),
   [loc |-> GzipFilterLoc])

\* http/modules/ngx_http_gzip_static_module.c
GzipStaticLoc == Struct({"enable"}, {}, {})
GzipStaticModule == Module("http", "gzip_static",
        Cmd(HSL, 1..1, "unset", "loc", {<<"gzip_static", "enable">>}),
   [loc |-> GzipStaticLoc])

\* http/modules/ngx_http_headers_filter_module.c
HeadersFilterLoc == Struct({"expires"}, {}, {"headers"})
HeadersFilterModule == Module("http", "headers_filter",
        Cmd(HSLI, 1..2, "unset", "loc", {<<"expires", "expires">>})
   \cup Cmd(HSLI, 2..2, "add", "loc", {<<"add_header", "headers">>}),
   [loc |-> HeadersFilterLoc])

\* http/modules/ngx_http_image_filter_module.c
ImageFilterLoc == Struct({"filter", "jpeg_quality", "sharpen", "transparency",
   "buffer_size"}, {}, {})
ImageFilterModule == Module("http", "image_filter",
        Cmd(L, 1..3, "last", "loc", {<<"image_filter", "filter">>})
   \cup Cmd(HSL, 1..1, "either", "loc", {<<"image_filter_jpeg_quality", "jpeg_quality">>,
          <<"image_filter_sharpen", "sharpen">>})
   \cup Cmd(HSL, 1..1, "unset", "loc", {<<"image_filter_transparency", "transparency">>,
          <<"image_filter_buffer", "buffer_size">>}),
   [loc |-> ImageFilterLoc])

\* http/modules/ngx_http_index_module.c
IndexLoc == Struct({}, {}, {"indices"})
IndexModule == Module("http", "index",
        Cmd(HSL, More(1), "add", "loc", {<<"index", "indices">>}),
   [loc |-> IndexLoc])

\* http/modules/ngx_http_limit_req_module.c
LimitReqLoc == Struct({"limit_log_level"}, {}, {"shm_zone"})
LimitReqModule == Module("http", "limit_req",
        Cmd(H, 3..3, "own", "main", {<<"limit_req_zone", "">>})
   \cup Cmd(HSL, 1..3, "null", "loc", {<<"limit_req", "shm_zone">>})
   \cup Cmd(HSL, 1..1, "unset", "loc", {<<"limit_req_log_level", "limit_log_level">>}),
   [loc |-> LimitReqLoc])

\* http/modules/ngx_http_limit_zone_module.c
LimitZoneLoc == Struct({"log_level"}, {}, {"shm_zone"})
LimitZoneModule == Module("http", "limit_zone",
        Cmd(H, 3..3, "own", "main", {<<"limit_zone", "">>})
   \cup Cmd(HSL, 2..2, "null", "loc", {<<"limit_conn", "shm_zone">>})
   \cup Cmd(HSL, 1..1, "unset", "loc", {<<"limit_conn_log_level", "log_level">>}),
   [loc |-> LimitZoneLoc])

\* http/modules/ngx_http_log_module.c
LogLoc == Struct({"open_file_cache"}, {"logs"}, {})
LogModule == Module("http", "log",
        Cmd(HSL, More(2), "own", "main", {<<"log_format", "">>})
   \cup Cmd({"http", "lif", "limit", "location", "server"}, 1..3, "add", "loc",
          {<<"access_log", "logs">>})
   \cup Cmd(HSL, 1..4, "unset", "loc", {<<"open_log_file_cache", "open_file_cache">>}),
   [loc |-> LogLoc])

\* http/modules/ngx_http_map_module.c
MapCreateMain == {"hash_max_size", "hash_bucket_size"}
MapModule == Module("http", "map",
        Cmd(H, 2..2, "block", "main", {<<"map", "">>})
   \cup Cmd(H, 1..1, "unset", "main", {<<"map_hash_max_size", "hash_max_size">>,
          <<"map_hash_bucket_size", "hash_bucket_size">>}),
   [main |-> [create |-> MapCreateMain, merge |-> NotMerged]])

\* http/modules/ngx_http_memcached_module.c
MemcachedLoc == Struct({"connect_timeout", "send_timeout", "buffer_size", "read_timeout"},
   {"next_upstream"}, {"upstream"})
MemcachedModule == Module("http", "memcached",
        Cmd(LI, 1..1, "null", "loc", {<<"memcached_pass", "upstream">>})
   \cup Cmd(HSL, 1..1, "last", "loc", {<<"memcached_bind", "local">>})
   \cup Cmd(HSL, 1..1, "unset", "loc", {<<"memcached_connect_timeout", "connect_timeout">>,
          <<"memcached_send_timeout", "send_timeout">>,
          <<"memcached_buffer_size", "buffer_size">>,
          <<"memcached_read_timeout", "read_timeout">>})
   \cup Cmd(HSL, More(1), "mask", "loc", {<<"memcached_next_upstream", "next_upstream">>}),
   [loc |-> MemcachedLoc])

\* http/modules/ngx_http_mp4_module.c
Mp4Loc == Struct({"buffer_size", "max_buffer_size"}, {}, {})
Mp4Module == Module("http", "mp4",
        Cmd(L, 0..0, "own", "main", {<<"mp4", "">>})
   \cup Cmd(HSL, 1..1, "unset", "loc", {<<"mp4_buffer_size", "buffer_size">>,
          <<"mp4_max_buffer_size", "max_buffer_size">>}),
   [loc |-> Mp4Loc])

\* http/modules/ngx_http_proxy_module.c
ProxyCommands1 ==
       Cmd({"lif", "limit", "location"}, 1..1, "pass", "loc",
         {<<"proxy_pass", "upstream">>})
  \cup Cmd(HSL, 1..2, "own", "loc", {<<"proxy_redirect", "">>})
  \cup Cmd(HSL, 1..1, "store", "loc", {<<"proxy_store", "store">>})
  \cup Cmd(HSL, 1..1, "unset", "loc", {<<"proxy_buffering", "buffering">>,
         <<"proxy_ignore_client_abort", "ignore_client_abort">>,
         <<"proxy_connect_timeout", "connect_timeout">>,
         <<"proxy_send_timeout", "send_timeout">>, <<"proxy_send_lowat", "send_lowat">>,
         <<"proxy_intercept_errors", "intercept_errors">>,
         <<"proxy_headers_hash_max_size", "headers_hash_max_size">>,
         <<"proxy_headers_hash_bucket_size", "headers_hash_bucket_size">>,
         <<"proxy_pass_request_headers", "pass_request_headers">>,
         <<"proxy_pass_request_body", "pass_request_body">>,
         <<"proxy_buffer_size", "buffer_size">>, <<"proxy_read_timeout", "read_timeout">>})
  \cup Cmd(HSL, 1..3, "unset", "loc", {<<"proxy_store_access", "store_access">>})
  \cup Cmd(HSL, 1..1, "last", "loc", {<<"proxy_bind", "local">>})
  \cup Cmd(HSL, 2..2, "add", "loc", {<<"proxy_set_header", "headers_source">>})
  \cup Cmd(HSL, 1..1, "null", "loc", {<<"proxy_set_body", "body_source">>,
         <<"proxy_method", "method">>})
ProxyCommands2 ==
       Cmd(HSL, 2..2, "null", "loc", {<<"proxy_buffers", "bufs">>})
  \cup Cmd(HSL, 1..1, "unset", "loc", {<<"proxy_busy_buffers_size", "busy_buffers_size">>,
         <<"proxy_cache", "cache">>, <<"proxy_cache_min_uses", "cache_min_uses">>,
         <<"proxy_max_temp_file_size", "max_temp_file_size">>,
         <<"proxy_temp_file_write_size", "temp_file_write_size">>,
         <<"proxy_ssl_session_reuse", "ssl_session_reuse">>})
  \cup Cmd(HSL, 1..1, "null", "loc", {<<"proxy_cache_key", "cache_key">>})
  \cup Cmd(H, More(2), "own", "main", {<<"proxy_cache_path", "">>})
  \cup Cmd(HSL, More(1), "push", "loc", {<<"proxy_cache_bypass", "cache_bypass">>,
         <<"proxy_no_cache", "no_cache">>, <<"proxy_cache_valid", "cache_valid">>})
  \cup Cmd(HSL, More(1), "mask", "loc", {<<"proxy_cache_use_stale", "cache_use_stale">>,
         <<"proxy_cache_methods", "cache_methods">>,
         <<"proxy_next_upstream", "next_upstream">>,
         <<"proxy_ignore_headers", "ignore_headers">>})
  \cup Cmd(HSL, 1..4, "null", "loc", {<<"proxy_temp_path", "temp_path">>})
  \cup Cmd(HSL, 1..1, "push", "loc", {<<"proxy_pass_header", "pass_headers">>,
         <<"proxy_hide_header", "hide_headers">>})
ProxyCreateLoc == {"store", "store_access", "buffering", "ignore_client_abort",
   "connect_timeout", "send_timeout", "send_lowat", "intercept_errors",
   "headers_hash_max_size", "headers_hash_bucket_size", "pass_request_headers",
   "pass_request_body", "buffer_size", "read_timeout", "busy_buffers_size", "cache",
   "cache_bypass", "no_cache", "cache_valid", "cache_min_uses", "max_temp_file_size",
   "temp_file_write_size", "pass_headers", "hide_headers", "ssl_session_reuse"}
ProxyInherited == {"upstream", "headers_source", "body_source", "method", "cache_key",
   "cache_methods", "pass_headers", "hide_headers"}
ProxyMergeLoc == Merged(ProxyCreateLoc \ {"pass_headers", "hide_headers"}, {"bufs",
   "cache_use_stale", "temp_path", "next_upstream", "ignore_headers"},
   ProxyInherited)
ProxyModule == Module("http", "proxy", ProxyCommands1 \cup ProxyCommands2, [loc |->
   [create |-> ProxyCreateLoc, merge |-> ProxyMergeLoc]])

\* http/modules/ngx_http_random_index_module.c
RandomIndexLoc == Struct({"enable"}, {}, {})
RandomIndexModule == Module("http", "random_index",
        Cmd(L, 1..1, "unset", "loc", {<<"random_index", "enable">>}),
   [loc |-> RandomIndexLoc])

\* http/modules/ngx_http_realip_module.c
RealipLoc == Struct({}, {"header"}, {"from"})
RealipModule == Module("http", "realip",
        Cmd(HSL, 1..1, "add", "loc", {<<"set_real_ip_from", "from">>})
   \cup Cmd(HSL, 1..1, "last", "loc", {<<"real_ip_header", "header">>}),
   [loc |-> RealipLoc])

\* http/modules/ngx_http_referer_module.c
RefererLoc == Struct({"referer_hash_max_size", "referer_hash_bucket_size"}, {}, {"keys"})
RefererModule == Module("http", "referer",
        Cmd(SL, More(1), "add", "loc", {<<"valid_referers", "keys">>})
   \cup Cmd(SL, 1..1, "unset", "loc", {<<"referer_hash_max_size", "referer_hash_max_size">>,
          <<"referer_hash_bucket_size", "referer_hash_bucket_size">>}),
   [loc |-> RefererLoc])

\* http/modules/ngx_http_rewrite_module.c
RewriteLoc == Struct({"log", "uninitialized_variable_warn"}, {}, {})
RewriteModule == Module("http", "rewrite",
        Cmd(SLI, 2..3, "own", "loc", {<<"rewrite", "">>})
   \cup Cmd(SLI, 1..2, "own", "loc", {<<"return", "">>})
   \cup Cmd(SLI, 0..0, "own", "loc", {<<"break", "">>})
   \cup Cmd(SL, More(1), "block", "loc", {<<"if", "">>})
   \cup Cmd(SLI, 2..2, "own", "loc", {<<"set", "">>})
   \cup Cmd(HSLII, 1..1, "unset", "loc", {<<"rewrite_log", "log">>,
          <<"uninitialized_variable_warn", "uninitialized_variable_warn">>}),
   [loc |-> RewriteLoc])

\* http/modules/ngx_http_scgi_module.c
ScgiCommands1 ==
       Cmd(LI, 1..1, "pass", "loc", {<<"scgi_pass", "upstream">>})
  \cup Cmd(HSL, 1..1, "store", "loc", {<<"scgi_store", "store">>})
  \cup Cmd(HSL, 1..1, "unset", "loc", {<<"scgi_buffering", "buffering">>,
         <<"scgi_ignore_client_abort", "ignore_client_abort">>,
         <<"scgi_connect_timeout", "connect_timeout">>,
         <<"scgi_send_timeout", "send_timeout">>, <<"scgi_buffer_size", "buffer_size">>,
         <<"scgi_pass_request_headers", "pass_request_headers">>,
         <<"scgi_pass_request_body", "pass_request_body">>,
         <<"scgi_intercept_errors", "intercept_errors">>,
         <<"scgi_read_timeout", "read_timeout">>,
         <<"scgi_busy_buffers_size", "busy_buffers_size">>, <<"scgi_cache", "cache">>})
  \cup Cmd(HSL, 1..3, "unset", "loc", {<<"scgi_store_access", "store_access">>})
  \cup Cmd(HSL, 1..1, "last", "loc", {<<"scgi_bind", "local">>})
  \cup Cmd(HSL, 2..2, "null", "loc", {<<"scgi_buffers", "bufs">>})
  \cup Cmd(HSL, 1..1, "null", "loc", {<<"scgi_cache_key", "cache_key">>})
  \cup Cmd(H, More(2), "own", "main", {<<"scgi_cache_path", "">>})
  \cup Cmd(HSL, More(1), "push", "loc", {<<"scgi_cache_bypass", "cache_bypass">>,
         <<"scgi_no_cache", "no_cache">>})
ScgiCommands2 ==
       Cmd(HSL, More(1), "push", "loc", {<<"scgi_cache_valid", "cache_valid">>})
  \cup Cmd(HSL, 1..1, "unset", "loc", {<<"scgi_cache_min_uses", "cache_min_uses">>,
         <<"scgi_max_temp_file_size", "max_temp_file_size">>,
         <<"scgi_temp_file_write_size", "temp_file_write_size">>})
  \cup Cmd(HSL, More(1), "mask", "loc", {<<"scgi_cache_use_stale", "cache_use_stale">>,
         <<"scgi_cache_methods", "cache_methods">>,
         <<"scgi_next_upstream", "next_upstream">>,
         <<"scgi_ignore_headers", "ignore_headers">>})
  \cup Cmd(HSL, 1..4, "null", "loc", {<<"scgi_temp_path", "temp_path">>})
  \cup Cmd(HSL, 2..2, "add", "loc", {<<"scgi_param", "params_source">>})
  \cup Cmd(HSL, 1..1, "push", "loc", {<<"scgi_pass_header", "pass_headers">>,
         <<"scgi_hide_header", "hide_headers">>})
ScgiCreateLoc == {"store", "store_access", "buffering", "ignore_client_abort",
   "connect_timeout", "send_timeout", "buffer_size", "pass_request_headers",
   "pass_request_body", "intercept_errors", "read_timeout", "busy_buffers_size", "cache",
   "cache_bypass", "no_cache", "cache_valid", "cache_min_uses", "max_temp_file_size",
   "temp_file_write_size", "pass_headers", "hide_headers"}
ScgiInherited == {"upstream", "cache_key", "cache_methods", "params_source",
   "pass_headers", "hide_headers"}
ScgiMergeLoc == Merged(ScgiCreateLoc \ {"pass_headers", "hide_headers"}, {"bufs",
   "cache_use_stale", "temp_path", "next_upstream", "ignore_headers"},
   ScgiInherited)
ScgiModule == Module("http", "scgi", ScgiCommands1 \cup ScgiCommands2, [loc |->
   [create |-> ScgiCreateLoc, merge |-> ScgiMergeLoc]])

\* http/modules/ngx_http_secure_link_module.c
SecureLinkLoc == Struct({}, {"secret"}, {"variable", "md5"})
SecureLinkModule == Module("http", "secure_link",
        Cmd(HSL, 1..1, "null", "loc", {<<"secure_link", "variable">>,
          <<"secure_link_md5", "md5">>, <<"secure_link_secret", "secret">>}),
   [loc |-> SecureLinkLoc])

\* http/modules/ngx_http_split_clients_module.c
SplitClientsModule == Module("http", "split_clients",
        Cmd(H, 2..2, "block", "main", {<<"split_clients", "">>}),
   NoConfs)

\* http/modules/ngx_http_ssi_filter_module.c
SsiFilterLoc == Struct({"enable", "silent_errors", "ignore_recycled_buffers",
   "min_file_chunk", "value_len"}, {"types_keys"}, {})
SsiFilterModule == Module("http", "ssi_filter",
        Cmd(HSLI, 1..1, "unset", "loc", {<<"ssi", "enable">>})
   \cup Cmd(HSL, 1..1, "unset", "loc", {<<"ssi_silent_errors", "silent_errors">>,
          <<"ssi_ignore_recycled_buffers", "ignore_recycled_buffers">>,
          <<"ssi_min_file_chunk", "min_file_chunk">>, <<"ssi_value_length", "value_len">>})
   \cup Cmd(HSL, More(1), "add", "loc", {<<"ssi_types", "types_keys">>}),
   [loc |-> SsiFilterLoc])

\* http/modules/ngx_http_ssl_module.c
SslCreateSrv == {"enable", "verify", "verify_depth", "prefer_server_ciphers",
   "session_timeout"}
SslMergeSrv == Merged(SslCreateSrv, {"certificate", "certificate_key", "dhparam",
   "ecdh_curve", "protocols", "ciphers", "client_certificate", "crl"}, {})
SslModule == Module("http", "ssl",
        Cmd(HS, 1..1, "unset", "srv", {<<"ssl", "enable">>,
          <<"ssl_verify_client", "verify">>,
          <<"ssl_prefer_server_ciphers", "prefer_server_ciphers">>,
          <<"ssl_session_timeout", "session_timeout">>})
   \cup Cmd(HS, 1..1, "null", "srv", {<<"ssl_certificate", "certificate">>,
          <<"ssl_certificate_key", "certificate_key">>, <<"ssl_dhparam", "dhparam">>,
          <<"ssl_ecdh_curve", "ecdh_curve">>, <<"ssl_ciphers", "ciphers">>,
          <<"ssl_client_certificate", "client_certificate">>, <<"ssl_crl", "crl">>})
   \cup Cmd(HS, More(1), "mask", "srv", {<<"ssl_protocols", "protocols">>})
   \cup Cmd(HS, More(1), "unset", "srv", {<<"ssl_verify_depth", "verify_depth">>})
   \cup Cmd(HS, 1..2, "own", "srv", {<<"ssl_session_cache", "">>}),
   [srv |-> [create |-> SslCreateSrv, merge |-> SslMergeSrv]])

\* http/modules/ngx_http_stub_status_module.c
StubStatusModule == Module("http", "stub_status",
        Cmd(SL, 1..1, "own", "main", {<<"stub_status", "">>}),
   NoConfs)

\* http/modules/ngx_http_sub_filter_module.c
SubFilterLoc == Struct({"once"}, {"match", "types_keys"}, {})
SubFilterModule == Module("http", "sub_filter",
        Cmd(HSL, 2..2, "null", "loc", {<<"sub_filter", "match">>})
   \cup Cmd(HSL, More(1), "add", "loc", {<<"sub_filter_types", "types_keys">>})
   \cup Cmd(HSL, 1..1, "unset", "loc", {<<"sub_filter_once", "once">>}),
   [loc |-> SubFilterLoc])

\* http/modules/ngx_http_upstream_ip_hash_module.c
UpstreamIpHashModule == Module("http", "upstream_ip_hash",
        Cmd({"upstream"}, 0..0, "own", "main", {<<"ip_hash", "">>}),
   NoConfs)

\* http/modules/ngx_http_userid_filter_module.c
UseridFilterLoc == [create |-> {"enable", "service", "expires"},
   merge |-> Merged({"enable", "expires"}, {"name", "domain", "path", "p3p"}, {"service"})]
UseridFilterModule == Module("http", "userid_filter",
        Cmd(HSL, 1..1, "unset", "loc", {<<"userid", "enable">>,
          <<"userid_service", "service">>, <<"userid_expires", "expires">>})
   \cup Cmd(HSL, 1..1, "null", "loc", {<<"userid_name", "name">>,
          <<"userid_domain", "domain">>, <<"userid_path", "path">>,
          <<"userid_p3p", "p3p">>})
   \cup Cmd(HSL, 1..1, "own", "loc", {<<"userid_mark", "">>}),
   [loc |-> UseridFilterLoc])

\* http/modules/ngx_http_uwsgi_module.c
UwsgiCommands1 ==
       Cmd(LI, 1..1, "pass", "loc", {<<"uwsgi_pass", "upstream">>})
  \cup Cmd(HSL, 1..1, "store", "loc", {<<"uwsgi_store", "store">>})
  \cup Cmd(HSL, 1..1, "unset", "loc", {<<"uwsgi_modifier1", "modifier1">>,
         <<"uwsgi_modifier2", "modifier2">>,
         <<"uwsgi_buffering", "buffering">>,
         <<"uwsgi_ignore_client_abort", "ignore_client_abort">>,
         <<"uwsgi_connect_timeout", "connect_timeout">>,
         <<"uwsgi_send_timeout", "send_timeout">>, <<"uwsgi_buffer_size", "buffer_size">>,
         <<"uwsgi_pass_request_headers", "pass_request_headers">>,
         <<"uwsgi_pass_request_body", "pass_request_body">>,
         <<"uwsgi_intercept_errors", "intercept_errors">>,
         <<"uwsgi_read_timeout", "read_timeout">>,
         <<"uwsgi_busy_buffers_size", "busy_buffers_size">>, <<"uwsgi_cache", "cache">>})
  \cup Cmd(HSL, 1..3, "unset", "loc", {<<"uwsgi_store_access", "store_access">>})
  \cup Cmd(HSL, 1..1, "last", "loc", {<<"uwsgi_bind", "local">>})
  \cup Cmd(HSL, 2..2, "null", "loc", {<<"uwsgi_buffers", "bufs">>})
  \cup Cmd(HSL, 1..1, "null", "loc", {<<"uwsgi_cache_key", "cache_key">>})
  \cup Cmd(H, More(2), "own", "main", {<<"uwsgi_cache_path", "">>})
UwsgiCommands2 ==
       Cmd(HSL, More(1), "push", "loc", {<<"uwsgi_cache_bypass", "cache_bypass">>,
         <<"uwsgi_no_cache", "no_cache">>, <<"uwsgi_cache_valid", "cache_valid">>})
  \cup Cmd(HSL, 1..1, "unset", "loc", {<<"uwsgi_cache_min_uses", "cache_min_uses">>,
         <<"uwsgi_max_temp_file_size", "max_temp_file_size">>,
         <<"uwsgi_temp_file_write_size", "temp_file_write_size">>})
  \cup Cmd(HSL, More(1), "mask", "loc", {<<"uwsgi_cache_use_stale", "cache_use_stale">>,
         <<"uwsgi_cache_methods", "cache_methods">>,
         <<"uwsgi_next_upstream", "next_upstream">>,
         <<"uwsgi_ignore_headers", "ignore_headers">>})
  \cup Cmd(HSL, 1..4, "null", "loc", {<<"uwsgi_temp_path", "temp_path">>})
  \cup Cmd(HSL, 2..2, "add", "loc", {<<"uwsgi_param", "params_source">>})
  \cup Cmd(HSL, 1..1, "null", "loc", {<<"uwsgi_string", "uwsgi_string">>})
  \cup Cmd(HSL, 1..1, "push", "loc", {<<"uwsgi_pass_header", "pass_headers">>,
         <<"uwsgi_hide_header", "hide_headers">>})
UwsgiCreateLoc == {"modifier1", "modifier2", "store", "store_access", "buffering",
   "ignore_client_abort", "connect_timeout", "send_timeout", "buffer_size",
   "pass_request_headers", "pass_request_body", "intercept_errors", "read_timeout",
   "busy_buffers_size", "cache", "cache_bypass", "no_cache", "cache_valid",
   "cache_min_uses", "max_temp_file_size", "temp_file_write_size", "pass_headers",
   "hide_headers"}
UwsgiInherited == {"upstream", "cache_key", "cache_methods", "params_source",
   "pass_headers", "hide_headers"}
UwsgiMergeLoc == Merged(UwsgiCreateLoc \ {"pass_headers", "hide_headers"}, {"bufs",
   "cache_use_stale", "temp_path", "next_upstream", "uwsgi_string", "ignore_headers"},
   UwsgiInherited)
UwsgiModule == Module("http", "uwsgi", UwsgiCommands1 \cup UwsgiCommands2, [loc |->
   [create |-> UwsgiCreateLoc, merge |-> UwsgiMergeLoc]])

\* http/modules/ngx_http_xslt_filter_module.c
XsltFilterLoc == Struct({}, {"types_keys"}, {"dtd", "sheets"})
XsltFilterModule == Module("http", "xslt_filter",
        Cmd(HSL, 1..1, "null", "loc", {<<"xml_entities", "dtd">>})
   \cup Cmd(L, More(1), "add", "loc", {<<"xslt_stylesheet", "sheets">>})
   \cup Cmd(HSL, More(1), "add", "loc", {<<"xslt_types", "types_keys">>}),
   [loc |-> XsltFilterLoc])

\* http/modules/perl/ngx_http_perl_module.c
PerlMain == [create |-> {"modules", "requires"}, merge |-> Merged({}, {}, {})]
PerlLoc == Struct({}, {}, {"handler"})
PerlModule == Module("http", "perl",
        Cmd(H, 1..1, "push", "main", {<<"perl_modules", "modules">>,
          <<"perl_require", "requires">>})
   \cup Cmd({"limit", "location"}, 1..1, "null", "loc", {<<"perl", "handler">>})
   \cup Cmd(H, 2..2, "own", "loc", {<<"perl_set", "">>}),
   [main |-> PerlMain, loc |-> PerlLoc])

\* http/ngx_http.c
HttpModule == Module("core", "http",
        Cmd(Main, 0..0, "block", "main", {<<"http", "">>}),
   NoConfs)

\* http/ngx_http_copy_filter_module.c
CopyFilterLoc == Struct({}, {"bufs"}, {})
CopyFilterModule == Module("http", "copy_filter",
        Cmd(HSL, 2..2, "null", "loc", {<<"output_buffers", "bufs">>}),
   [loc |-> CopyFilterLoc])

\* http/ngx_http_core_module.c
HttpCoreCommands1 ==
       Cmd(H, 1..1, "unset", "main",
         {<<"variables_hash_max_size", "variables_hash_max_size">>,
         <<"variables_hash_bucket_size", "variables_hash_bucket_size">>,
         <<"server_names_hash_max_size", "server_names_hash_max_size">>,
         <<"server_names_hash_bucket_size", "server_names_hash_bucket_size">>})
  \cup Cmd(H, 0..0, "multi", "main", {<<"server", "">>})
  \cup Cmd(HS, 1..1, "unset", "srv", {<<"connection_pool_size", "connection_pool_size">>,
         <<"request_pool_size", "request_pool_size">>,
         <<"client_header_timeout", "client_header_timeout">>,
         <<"client_header_buffer_size", "client_header_buffer_size">>,
         <<"ignore_invalid_headers", "ignore_invalid_headers">>,
         <<"merge_slashes", "merge_slashes">>,
         <<"underscores_in_headers", "underscores_in_headers">>})
  \cup Cmd(HS, 2..2, "null", "srv",
         {<<"large_client_header_buffers", "large_client_header_buffers">>})
  \cup Cmd(HS, 1..1, "unset", "loc",
         {<<"optimize_server_names", "server_name_in_redirect">>})
  \cup Cmd(SL, 1..2, "block", "srv", {<<"location", "">>})
  \cup Cmd(S, More(1), "own", "srv", {<<"listen", "">>, <<"server_name", "">>})
  \cup Cmd(HSL, 1..1, "unset", "loc", {<<"types_hash_max_size", "types_hash_max_size">>,
         <<"types_hash_bucket_size", "types_hash_bucket_size">>})
  \cup Cmd(HSL, 0..0, "add", "loc", {<<"types", "types">>})
HttpCoreCommands2 ==
       Cmd(HSL, 1..1, "null", "loc", {<<"default_type", "default_type">>})
  \cup Cmd(HSLI, 1..1, "own", "loc", {<<"root", "">>})
  \cup Cmd(L, 1..1, "own", "loc", {<<"alias", "">>})
  \cup Cmd(L, More(1), "block", "loc", {<<"limit_except", "">>})
  \cup Cmd(HSL, 1..1, "unset", "loc", {<<"client_max_body_size", "client_max_body_size">>,
         <<"client_body_buffer_size", "client_body_buffer_size">>,
         <<"client_body_timeout", "client_body_timeout">>,
         <<"client_body_in_file_only", "client_body_in_file_only">>,
         <<"client_body_in_single_buffer", "client_body_in_single_buffer">>,
         <<"sendfile_max_chunk", "sendfile_max_chunk">>, <<"aio", "aio">>,
         <<"read_ahead", "read_ahead">>, <<"directio", "directio">>,
         <<"directio_alignment", "directio_alignment">>, <<"tcp_nopush", "tcp_nopush">>,
         <<"tcp_nodelay", "tcp_nodelay">>, <<"send_timeout", "send_timeout">>,
         <<"send_lowat", "send_lowat">>})
  \cup Cmd(HSL, 1..4, "null", "loc", {<<"client_body_temp_path", "client_body_temp_path">>})
  \cup Cmd(HSLI, 1..1, "unset", "loc", {<<"sendfile", "sendfile">>})
HttpCoreCommands3 ==
       Cmd(HSL, 1..1, "unset", "loc", {<<"postpone_output", "postpone_output">>,
         <<"keepalive_requests", "keepalive_requests">>, <<"satisfy", "satisfy">>,
         <<"satisfy_any", "satisfy">>, <<"lingering_close", "lingering_close">>,
         <<"lingering_time", "lingering_time">>,
         <<"lingering_timeout", "lingering_timeout">>,
         <<"reset_timedout_connection", "reset_timedout_connection">>,
         <<"server_name_in_redirect", "server_name_in_redirect">>,
         <<"port_in_redirect", "port_in_redirect">>, <<"msie_padding", "msie_padding">>,
         <<"msie_refresh", "msie_refresh">>, <<"log_not_found", "log_not_found">>,
         <<"log_subrequest", "log_subrequest">>,
         <<"recursive_error_pages", "recursive_error_pages">>})
  \cup Cmd(HSLI, 1..1, "unset", "loc", {<<"limit_rate", "limit_rate">>,
         <<"limit_rate_after", "limit_rate_after">>})
  \cup Cmd(HSL, 1..2, "unset", "loc", {<<"keepalive_timeout", "keepalive_timeout">>})
  \cup Cmd(HSL, 1..2, "mask", "loc", {<<"keepalive_disable", "keepalive_disable">>})
  \cup Cmd(L, 0..0, "unset", "loc", {<<"internal", "internal">>})
HttpCoreCommands4 ==
       Cmd(HSL, 1..1, "unset", "loc", {<<"server_tokens", "server_tokens">>,
         <<"if_modified_since", "if_modified_since">>, <<"max_ranges", "max_ranges">>,
         <<"chunked_transfer_encoding", "chunked_transfer_encoding">>,
         <<"open_file_cache_valid", "open_file_cache_valid">>,
         <<"open_file_cache_retest", "open_file_cache_valid">>,
         <<"open_file_cache_min_uses", "open_file_cache_min_uses">>,
         <<"open_file_cache_errors", "open_file_cache_errors">>,
         <<"open_file_cache_events", "open_file_cache_events">>,
         <<"resolver_timeout", "resolver_timeout">>, <<"gzip_vary", "gzip_vary">>,
         <<"gzip_http_version", "gzip_http_version">>})
  \cup Cmd(HSLI, More(2), "add", "loc", {<<"error_page", "error_pages">>})
  \cup Cmd(SL, More(2), "null", "loc", {<<"try_files", "try_files">>})
  \cup Cmd(HSLI, 1..1, "null", "loc", {<<"post_action", "post_action">>})
  \cup Cmd(HSL, More(1), "null", "loc", {<<"error_log", "error_log">>})
  \cup Cmd(HSL, 1..2, "unset", "loc", {<<"open_file_cache", "open_file_cache">>})
  \cup Cmd(HSL, 1..1, "null", "loc", {<<"resolver", "resolver">>})
  \cup Cmd(HSL, More(1), "mask", "loc", {<<"gzip_proxied", "gzip_proxied">>})
  \cup Cmd(HSL, More(1), "push", "loc", {<<"gzip_disable", "gzip_disable">>})
HttpCoreMain == Struct({"variables_hash_max_size", "variables_hash_bucket_size",
   "server_names_hash_max_size", "server_names_hash_bucket_size"}, {}, {})
HttpCoreSrv == Struct({"connection_pool_size", "request_pool_size", "client_header_timeout",
   "client_header_buffer_size", "ignore_invalid_headers", "merge_slashes",
   "underscores_in_headers"}, {"large_client_header_buffers"}, {})
HttpCoreCreateLoc == {"server_name_in_redirect", "types_hash_max_size",
   "types_hash_bucket_size", "client_max_body_size", "client_body_buffer_size",
   "client_body_timeout", "client_body_in_file_only", "client_body_in_single_buffer",
   "sendfile", "sendfile_max_chunk", "aio", "read_ahead", "directio", "directio_alignment",
   "tcp_nopush", "tcp_nodelay", "send_timeout", "send_lowat", "postpone_output",
   "limit_rate", "limit_rate_after", "keepalive_timeout", "keepalive_requests", "satisfy",
   "internal", "lingering_close", "lingering_time", "lingering_timeout",
   "reset_timedout_connection", "port_in_redirect", "msie_padding", "msie_refresh",
   "log_not_found", "log_subrequest", "recursive_error_pages", "server_tokens",
   "if_modified_since", "max_ranges", "chunked_transfer_encoding", "open_file_cache",
   "open_file_cache_valid", "open_file_cache_min_uses", "open_file_cache_errors",
   "open_file_cache_events", "resolver_timeout", "gzip_vary", "gzip_http_version",
   "gzip_disable"}
HttpCoreNull == {"default_type", "client_body_temp_path", "keepalive_disable",
   "error_log", "gzip_proxied"}
HttpCoreMergeLoc == Merged(HttpCoreCreateLoc, HttpCoreNull, {"types", "error_pages",
   "post_action", "resolver"})
HttpCoreModule == Module("http", "core", HttpCoreCommands1 \cup HttpCoreCommands2 \cup
   HttpCoreCommands3 \cup HttpCoreCommands4, [main |-> HttpCoreMain, srv |-> HttpCoreSrv,
   loc |-> [create |-> HttpCoreCreateLoc, merge |-> HttpCoreMergeLoc]])

\* http/ngx_http_upstream.c
UpstreamModule == Module("http", "upstream",
        Cmd(H, 1..1, "block", "main", {<<"upstream", "">>})
   \cup Cmd({"upstream"}, More(1), "own", "srv", {<<"server", "">>}),
   NoConfs)

\* ngx_modules, in the order in which auto/modules lists them in a full build.
NgxModules ==
  <<CoreModule, ErrlogModule, ConfModule, EventsModule, EventCoreModule, DevpollModule,
    EpollModule, EventportModule, KqueueModule, RtsigModule, OpensslModule, HttpModule,
    HttpCoreModule, LogModule, UpstreamModule, GzipStaticModule, DavModule, AutoindexModule,
    IndexModule, RandomIndexModule, AuthBasicModule, AccessModule, LimitZoneModule,
    LimitReqModule, RealipModule, GeoModule, GeoipModule, MapModule, SplitClientsModule,
    RefererModule, RewriteModule, SslModule, ProxyModule, FastcgiModule, UwsgiModule,
    ScgiModule, PerlModule, MemcachedModule, EmptyGifModule, BrowserModule,
    SecureLinkModule, DegradationModule, FlvModule, Mp4Module, UpstreamIpHashModule,
    StubStatusModule, GzipFilterModule, SsiFilterModule, CharsetFilterModule,
    XsltFilterModule, ImageFilterModule, SubFilterModule, AdditionFilterModule,
    UseridFilterModule, HeadersFilterModule, CopyFilterModule, MailModule, MailCoreModule,
    MailSslModule, MailPop3Module, MailImapModule, MailSmtpModule, MailAuthHttpModule,
    MailProxyModule, GooglePerftoolsModule>>

==============================================================================
